---- MODULE Spec2Model ----
(***************************************************************************)
(* Authentication subsystem of the full-stack demo backend:                *)
(*   models/User.js     in-memory user store                               *)
(*   utils/jwt.js       token issuer and validator (jsonwebtoken)          *)
(*   config/passport.js JWT strategy, Google strategy, authenticateJWT     *)
(*   routes/auth.js     the /auth router behind its rate limiter           *)
(*                                                                         *)
(* Time is counted in ticks of 24 hours.  JS `undefined` and `null` are    *)
(* the strings "undefined" and "null".                                     *)
(***************************************************************************)
EXTENDS Integers, Sequences, FiniteSets, TLC

VARIABLES
    users,      \* models/User.js `users`: the array of user records
    nextId,     \* models/User.js `nextId`
    now,        \* the server clock, in ticks
    authLimited,\* authLimiter: the client's count in the current window has reached max
    pending,    \* register requests suspended at `await hashPassword(...)`
    held,       \* the token pair the client keeps (or NoTokens)
    last,       \* the request handled last and its outcome (or Idle)
    authState,  \* frontend auth.js `authState` of the page that is open
    localStorage, \* the browser's localStorage: auth_token and user_data
    location,   \* the browser's window.location: the page and a navigation under way
    server,     \* the server process: its environment and how far server.js has run
    payments    \* routes/payment.js `payments`: the array of local payment records

\* the state of the browser
front == <<authState, localStorage, location>>

vars == <<users, nextId, now, authLimited, pending, held, last, front, server, payments>>

(***************************************************************************)
(* Bounds of the model.                                                    *)
(***************************************************************************)
MaxUsers == 3       \* users ever created (nextId never exceeds MaxUsers + 1)
MaxTime == 2        \* the clock stops here
MaxPending == 1     \* register requests in flight at once
MaxRaceUsers == 4   \* users ever created when registrations overlap
MaxRacePending == 2 \* register requests in flight at once when they overlap
MaxPayments == 2     \* local payment records ever created
MaxClockSteps == 4  \* ten-minute steps of the clock while token expiry is looked at

Undefined == "undefined"
Null == "null"

(***************************************************************************)
(* Process environment.  JWT_SECRET is set: with it unset the JwtStrategy  *)
(* constructor throws while config/passport.js loads.  NODE_ENV is not     *)
(* "production", so the sample users are created at load.                  *)
(***************************************************************************)
JWT_SECRET == "env-secret"
DefaultSecret == "sua_chave_secreta_super_forte_e_aleatoria"

\* JWT lifetimes in ticks: JWT_EXPIRES_IN = "24h" (the default) and
\* JWT_REFRESH_EXPIRES_IN = "2d".
AccessTtl == 1
RefreshTtl == 2

JWT_CONFIG ==
    [ secret           |-> IF JWT_SECRET = Undefined THEN DefaultSecret ELSE JWT_SECRET,
      expiresIn        |-> AccessTtl,
      refreshExpiresIn |-> RefreshTtl,
      algorithm        |-> "HS256",
      issuer           |-> "fullstack-project-api",
      audience         |-> "fullstack-project-users" ]

(***************************************************************************)
(* Passwords and bcrypt.                                                   *)
(***************************************************************************)
NoPassword == [kind |-> Undefined]

hashPassword(password) == [kind |-> "bcrypt", rounds |-> 10, plain |-> password]

comparePassword(candidatePassword, hash) ==
    /\ hash.kind = "bcrypt"
    /\ hash.plain = candidatePassword

(***************************************************************************)
(* express-validator chains of routes/auth.js.                             *)
(***************************************************************************)
\* isEmail()
isEmail(email) == email \in {"ana@x.com", "Ana@x.com", "admin@exemplo.com",
                             "google.user@exemplo.com"}

\* normalizeEmail(): lower-cases the address
normalizeEmail(email) ==
    CASE email = "Ana@x.com" -> "ana@x.com"
      [] OTHER -> email

\* password policy of registerValidators: >= 6 chars, a lower-case letter,
\* an upper-case letter and a digit
StrongPassword(password) == password \in {"Senha1"}

\* name policy of registerValidators
ValidName(name) == name \in {"Ana"}

\* `name || email.split("@")[0]` of the User constructor
DefaultName(name, email) ==
    IF name # Undefined /\ name # "" THEN name
    ELSE CASE email \in {"ana@x.com"} -> "ana"
           [] email = "Ana@x.com" -> "Ana"
           [] email = "admin@exemplo.com" -> "admin"
           [] email = "google.user@exemplo.com" -> "google.user"
           [] OTHER -> email

(***************************************************************************)
(* models/User.js                                                          *)
(***************************************************************************)
\* new User({...}): a class instance (isInstance: it has toJSON)
NewUser(id, data) ==
    [ id           |-> id,
      email        |-> data.email,
      password     |-> data.password,
      name         |-> DefaultName(data.name, data.email),
      googleId     |-> IF data.googleId = Undefined THEN Null ELSE data.googleId,
      authProvider |-> data.authProvider,
      provider     |-> Undefined,
      isInstance   |-> TRUE ]

\* the first of the indices that match, 0 when none does
FirstIndex(hits) ==
    IF hits = {} THEN 0
    ELSE CHOOSE i \in hits : \A j \in hits : i <= j

\* what Array.prototype.find returns when nothing matches
UndefinedUser == [undefined |-> TRUE]

\* variant: a lookup that takes the id for a position in the array
findByIdAsPosition(us, id) ==
    IF id \in 1..Len(us) THEN us[id] ELSE UndefinedUser

findById(us, id) ==
    LET i == FirstIndex({k \in 1..Len(us) : us[k].id = id})
    IN IF i = 0 THEN UndefinedUser ELSE us[i]

findByEmail(us, email) ==
    LET i == FirstIndex({k \in 1..Len(us) : us[k].email = email})
    IN IF i = 0 THEN UndefinedUser ELSE us[i]

findByGoogleId(us, googleId) ==
    LET i == FirstIndex({k \in 1..Len(us) : us[k].googleId = googleId})
    IN IF i = 0 THEN UndefinedUser ELSE us[i]

\* variant: linking writes the provider into authProvider
updateGoogleDataAuthProvider(us, userId, googleData) ==
    LET i == FirstIndex({k \in 1..Len(us) : us[k].id = userId})
    IN IF i = 0 THEN us
       ELSE [us EXCEPT ![i] = [@ EXCEPT !.googleId = googleData.googleId,
                                        !.authProvider = googleData.provider,
                                        !.isInstance = FALSE]]

\* users[userIndex] = {...users[userIndex], ...googleData}: the spread makes
\* a plain object, which has no toJSON
updateGoogleData(us, userId, googleData) ==
    LET i == FirstIndex({k \in 1..Len(us) : us[k].id = userId})
    IN IF i = 0 THEN us
       ELSE [us EXCEPT ![i] = [@ EXCEPT !.googleId = googleData.googleId,
                                        !.provider = googleData.provider,
                                        !.isInstance = FALSE]]

\* User.update(id, updates): a new password is hashed; the spread makes a
\* plain object here too
update(us, id, updates) ==
    LET i == FirstIndex({k \in 1..Len(us) : us[k].id = id})
        merged == [f \in DOMAIN us[i] |->
                      IF f \notin DOMAIN updates THEN us[i][f]
                      ELSE IF f = "password" THEN hashPassword(updates[f])
                      ELSE updates[f]]
    IN IF i = 0 THEN us
       ELSE [us EXCEPT ![i] = [merged EXCEPT !.isInstance = FALSE]]

\* users.filter((user) => user.id !== id)
deleteUser(us, id) == SelectSeq(us, LAMBDA u : u.id # id)

\* the users the module creates when it loads (NODE_ENV is not production)
SampleUsers ==
    << NewUser(1, [email |-> "admin@exemplo.com", password |-> hashPassword("admin123"),
                   name |-> "Administrador", googleId |-> Undefined,
                   authProvider |-> "local"]),
       NewUser(2, [email |-> "google.user@exemplo.com", password |-> NoPassword,
                   name |-> "Usuario Google", googleId |-> "1234567890",
                   authProvider |-> "google"]) >>

(***************************************************************************)
(* utils/jwt.js over jsonwebtoken.  A token is the record of its header    *)
(* and claims; `key` is the secret its signature was made with ("" for an  *)
(* unsigned token), and form = "garbage" is a string that is not           *)
(* header.payload.signature.                                               *)
(***************************************************************************)
\* jwt.sign(payload, secret, options) at time t
jwtSign(payload, secret, options, t) ==
    [ form   |-> "jwt",
      alg    |-> options.algorithm,
      key    |-> secret,
      iss    |-> options.issuer,
      aud    |-> options.audience,
      iat    |-> t,
      exp    |-> t + options.expiresIn,
      userId |-> payload.userId,
      email  |-> payload.email,
      name   |-> payload.name,
      type   |-> payload.type ]

\* algorithms jsonwebtoken accepts for a string secret when the caller
\* gives no `algorithms` option
HS_ALGS == {"HS256", "HS384", "HS512"}

\* variant: a verification that looks at the expiry before anything else
jwtVerifyExpiryFirst(token, secret, options, t) ==
    LET algorithms == IF options.algorithms = {} THEN HS_ALGS ELSE options.algorithms
        Err(name, message) == [name |-> name, message |-> message, payload |-> token]
    IN IF token.form # "jwt" THEN Err("JsonWebTokenError", "jwt malformed")
       ELSE IF t >= token.exp THEN Err("TokenExpiredError", "jwt expired")
       ELSE IF token.key = "" \/ token.alg \notin algorithms \/ token.key # secret
       THEN Err("JsonWebTokenError", "invalid signature")
       ELSE IF options.audience # Undefined /\ token.aud # options.audience
       THEN Err("JsonWebTokenError", "jwt audience invalid")
       ELSE IF options.issuer # Undefined /\ token.iss # options.issuer
       THEN Err("JsonWebTokenError", "jwt issuer invalid")
       ELSE Err("none", "")

\* jwt.verify(token, secret, options) at time t; options.algorithms = {} and
\* options.issuer/audience = Undefined stand for an option that is not given.
\* The checks run in jsonwebtoken's order: decoding (three parts; the
\* payload of a header with typ JWT goes through JSON.parse, whose
\* SyntaxError is thrown as it is), signature present, algorithm, signature,
\* expiry, audience, issuer.
jwtVerify(token, secret, options, t) ==
    LET algorithms == IF options.algorithms = {} THEN HS_ALGS ELSE options.algorithms
        Err(name, message) == [name |-> name, message |-> message, payload |-> token]
    IN CASE token.form = "unparsable" -> Err("SyntaxError", "Unexpected token in JSON")
         [] token.form \notin {"jwt", "unparsable"} ->
                Err("JsonWebTokenError", "jwt malformed")
         [] token.form = "jwt" /\ token.key = "" ->
                Err("JsonWebTokenError", "jwt signature is required")
         [] token.form = "jwt" /\ token.key # "" /\ token.alg \notin algorithms ->
                Err("JsonWebTokenError", "invalid algorithm")
         [] token.form = "jwt" /\ token.key # "" /\ token.alg \in algorithms
            /\ token.key # secret ->
                Err("JsonWebTokenError", "invalid signature")
         [] token.form = "jwt" /\ token.alg \in algorithms /\ token.key = secret
            /\ token.key # "" /\ t >= token.exp ->
                Err("TokenExpiredError", "jwt expired")
         [] token.form = "jwt" /\ token.alg \in algorithms /\ token.key = secret
            /\ token.key # "" /\ t < token.exp
            /\ options.audience # Undefined /\ token.aud # options.audience ->
                Err("JsonWebTokenError", "jwt audience invalid")
         [] token.form = "jwt" /\ token.alg \in algorithms /\ token.key = secret
            /\ token.key # "" /\ t < token.exp
            /\ (options.audience = Undefined \/ token.aud = options.audience)
            /\ options.issuer # Undefined /\ token.iss # options.issuer ->
                Err("JsonWebTokenError", "jwt issuer invalid")
         [] OTHER -> Err("none", "")

\* variant: an access token signed without the audience of JWT_CONFIG
generateAccessTokenNoAudience(user, t) ==
    jwtSign([userId |-> user.id, email |-> user.email, name |-> user.name,
             type |-> Undefined],
            JWT_CONFIG.secret,
            [expiresIn |-> JWT_CONFIG.expiresIn, issuer |-> JWT_CONFIG.issuer,
             audience |-> Undefined, algorithm |-> JWT_CONFIG.algorithm],
            t)

\* generateAccessToken(user): no type claim
generateAccessToken(user, t) ==
    jwtSign([userId |-> user.id, email |-> user.email, name |-> user.name,
             type |-> Undefined],
            JWT_CONFIG.secret,
            [expiresIn |-> JWT_CONFIG.expiresIn, issuer |-> JWT_CONFIG.issuer,
             audience |-> JWT_CONFIG.audience, algorithm |-> JWT_CONFIG.algorithm],
            t)

generateRefreshToken(user, t) ==
    jwtSign([userId |-> user.id, email |-> Undefined, name |-> Undefined,
             type |-> "refresh"],
            JWT_CONFIG.secret,
            [expiresIn |-> JWT_CONFIG.refreshExpiresIn, issuer |-> JWT_CONFIG.issuer,
             audience |-> JWT_CONFIG.audience, algorithm |-> JWT_CONFIG.algorithm],
            t)

generateTokenPair(user, t) ==
    [ accessToken  |-> generateAccessToken(user, t),
      refreshToken |-> generateRefreshToken(user, t),
      tokenType    |-> "Bearer",
      expiresIn    |-> JWT_CONFIG.expiresIn ]

NoTokens == [tokenType |-> "none"]

\* validateToken(token) at time t: ok with the decoded claims, or the message
\* of the Error it throws
validateToken(token, t) ==
    LET r == jwtVerify(token, JWT_CONFIG.secret,
                       [issuer |-> JWT_CONFIG.issuer, audience |-> JWT_CONFIG.audience,
                        algorithms |-> {JWT_CONFIG.algorithm}], t)
    IN CASE r.name = "none" -> [ok |-> TRUE, decoded |-> r.payload, message |-> ""]
         [] r.name = "TokenExpiredError" ->
                [ok |-> FALSE, decoded |-> r.payload, message |-> "Token expirado."]
         [] r.name = "JsonWebTokenError" ->
                [ok |-> FALSE, decoded |-> r.payload, message |-> "Token invalido."]
         [] r.name = "NotBeforeError" ->
                [ok |-> FALSE, decoded |-> r.payload, message |-> "Token ainda nao e valido."]
         [] OTHER -> [ok |-> FALSE, decoded |-> r.payload, message |-> "Erro ao validar token."]

\* a payload without exp, and a numeric argument that is not given
NoExp == -1
NotGiven == -1

\* what jwt.decode and decodeToken return for a string that is not a JWT
NullDecoded == [decoded |-> Null]

\* the SyntaxError of JSON.parse leaving jwt.decode
DecodeThrown == [thrown |-> "SyntaxError"]

\* jwt.decode(token, {complete: true}): no signature, expiry or claim is
\* verified.  jws.decode gives null for a string that is not
\* header.payload.signature and runs JSON.parse on the payload of a header
\* with typ JWT.
jwtDecode(token) ==
    CASE token.form = "jwt" -> [payload |-> token]
      [] token.form = "unparsable" -> DecodeThrown
      [] OTHER -> NullDecoded

\* decodeToken(token): null when jwt.decode throws
decodeToken(token) ==
    LET decoded == jwtDecode(token)
    IN IF decoded = DecodeThrown THEN NullDecoded ELSE decoded

\* variant: the token counts as near its expiry only strictly inside the threshold
isTokenNearExpiryStrict(token, thresholdMinutes, currentTime) ==
    LET decoded == decodeToken(token)
        minutes == IF thresholdMinutes = NotGiven THEN 30 ELSE thresholdMinutes
    IN IF decoded = NullDecoded \/ decoded.payload.exp = NoExp \/ decoded.payload.exp = 0
       THEN [threw |-> FALSE, value |-> TRUE]
       ELSE [threw |-> FALSE,
             value |-> decoded.payload.exp * 1000 - currentTime < minutes * 60 * 1000]

\* isTokenNearExpiry(token, thresholdMinutes = 30) when Date.now() is
\* currentTime (milliseconds); exp is in seconds.  `!decoded.payload.exp`
\* holds for a missing exp and for exp = 0.
isTokenNearExpiry(token, thresholdMinutes, currentTime) ==
    LET decoded == decodeToken(token)
        minutes == IF thresholdMinutes = NotGiven THEN 30 ELSE thresholdMinutes
        expirationTime == decoded.payload.exp * 1000
        thresholdTime == minutes * 60 * 1000
        timeUntilExpiry == expirationTime - currentTime
    IN IF decoded = NullDecoded \/ decoded.payload.exp = NoExp \/ decoded.payload.exp = 0
       THEN [threw |-> FALSE, value |-> TRUE]
       ELSE [threw |-> FALSE, value |-> timeUntilExpiry <= thresholdTime]

(***************************************************************************)
(* Requests and responses.  `last` records the request handled last: what  *)
(* was sent, what was answered, and what the gate did.  status = 0 means   *)
(* that no response has been sent.                                         *)
(***************************************************************************)
NoHeader == [scheme |-> Undefined]
NoToken == [form |-> "empty"]
Garbage == [form |-> "garbage"]
\* header.payload.signature whose payload is not JSON
Unparsable == [form |-> "unparsable"]

Resp(route, req) ==
    [ route         |-> route,
      req           |-> req,
      status        |-> 0,
      code          |-> "",
      error         |-> "",
      tokens        |-> NoTokens,
      bodyUser      |-> UndefinedUser,
      authenticated |-> FALSE,
      gate          |-> "none",
      reqUser       |-> UndefinedUser,
      gateSent      |-> 0,
      gateNext      |-> 0,
      handlerRan    |-> FALSE,
      lookups       |-> 0 ]

Idle == Resp("none", [none |-> TRUE])

\* res.status(status).json({error, code})
Fail(route, req, status, code, error) ==
    [Resp(route, req) EXCEPT !.status = status, !.code = code, !.error = error,
                             !.handlerRan = TRUE]

\* variant: a serialisation that copies every own property
toJSONAllProperties(user) == [f \in (DOMAIN user) \ {"isInstance"} |-> user[f]]

\* User.prototype.toJSON: a copy of the own properties without `password`
toJSON(user) == [f \in (DOMAIN user) \ {"password", "isInstance"} |-> user[f]]

(***************************************************************************)
(* config/passport.js: the JWT strategy and the mandatory gate.            *)
(***************************************************************************)
ToLowerCase(s) == CASE s = "Bearer" -> "bearer" [] OTHER -> s

\* variant: an extractor that takes the token whatever the scheme is
fromAuthHeaderAnyScheme(header) ==
    IF header = NoHeader THEN NoToken ELSE header.value

\* ExtractJwt.fromAuthHeaderAsBearerToken(): the scheme is compared in lower
\* case; NoToken when there is nothing to extract
fromAuthHeaderAsBearerToken(header) ==
    IF header = NoHeader THEN NoToken
    ELSE IF ToLowerCase(header.scheme) = "bearer" THEN header.value
    ELSE NoToken

\* variant: the strategy is given the fallback secret of utils/jwt.js
JwtStrategyOptionsDefaultSecret ==
    [ secretOrKey |-> DefaultSecret,
      algorithms  |-> {},
      issuer      |-> Undefined,
      audience    |-> Undefined ]

\* the options object given to new JwtStrategy(...): secretOrKey and
\* ignoreExpiration only
JwtStrategyOptions ==
    [ secretOrKey |-> JWT_SECRET,
      algorithms  |-> {},
      issuer      |-> Undefined,
      audience    |-> Undefined ]

\* variant: a verify callback that trusts the payload, done(null, payload),
\* without looking the user up
JwtStrategyTrustsPayload(us, t, header) ==
    LET token == fromAuthHeaderAsBearerToken(header)
        v == jwtVerify(token, JWT_SECRET,
                       [algorithms |-> {}, issuer |-> Undefined, audience |-> Undefined], t)
    IN IF token = NoToken \/ v.name # "none"
       THEN [result |-> "fail", user |-> UndefinedUser, lookups |-> 0]
       ELSE [result |-> "success",
             user |-> [id |-> v.payload.userId, email |-> v.payload.email,
                       name |-> v.payload.name, isInstance |-> FALSE],
             lookups |-> 0]

\* JwtStrategy.authenticate with the verify callback of passport.js:
\* what it reports (fail / success), the user, and the findById calls made
JwtStrategy(us, t, header) ==
    LET token == fromAuthHeaderAsBearerToken(header)
        v == jwtVerify(token, JwtStrategyOptions.secretOrKey, JwtStrategyOptions, t)
        user == findById(us, v.payload.userId)
    IN IF token = NoToken THEN [result |-> "fail", user |-> UndefinedUser, lookups |-> 0]
       ELSE IF v.name # "none" THEN [result |-> "fail", user |-> UndefinedUser, lookups |-> 0]
       ELSE IF user # UndefinedUser THEN [result |-> "success", user |-> user, lookups |-> 1]
       ELSE [result |-> "fail", user |-> UndefinedUser, lookups |-> 1]

\* the verify callback when User.findById rejects: catch -> done(error, false)
JwtStrategyLookupThrows(us, t, header) ==
    LET token == fromAuthHeaderAsBearerToken(header)
        v == jwtVerify(token, JwtStrategyOptions.secretOrKey, JwtStrategyOptions, t)
    IN IF token = NoToken THEN [result |-> "fail", user |-> UndefinedUser, lookups |-> 0]
       ELSE IF v.name # "none" THEN [result |-> "fail", user |-> UndefinedUser, lookups |-> 0]
       ELSE [result |-> "error", user |-> UndefinedUser, lookups |-> 1]

\* variant: the callback of authenticateJWT without its `if (err)` branch
authenticateJWTCallbackNoErr(a, route, header) ==
    LET req == [header |-> header]
    IN IF a.result # "success"
       THEN [Resp(route, req) EXCEPT !.status = 401, !.code = "INVALID_TOKEN",
                                     !.error = "Nao autorizado: Token invalido ou expirado.",
                                     !.gate = "401", !.gateSent = 1,
                                     !.lookups = a.lookups]
       ELSE [Resp(route, req) EXCEPT !.gate = "next", !.gateNext = 1, !.reqUser = a.user,
                                     !.lookups = a.lookups]

\* variant: the callback of authenticateJWT without the `return` of its 401
\* branch, which goes on to req.user = user; next()
authenticateJWTCallbackFallsThrough(a, route, header) ==
    LET req == [header |-> header]
    IN CASE a.result = "error" ->
              [Resp(route, req) EXCEPT !.status = 500, !.code = "AUTH_ERROR",
                                       !.error = "Erro interno de autenticacao.",
                                       !.gate = "500", !.gateSent = 1,
                                       !.lookups = a.lookups]
         [] a.result = "fail" ->
              [Resp(route, req) EXCEPT !.status = 401, !.code = "INVALID_TOKEN",
                                       !.error = "Nao autorizado: Token invalido ou expirado.",
                                       !.gate = "401", !.gateSent = 1, !.gateNext = 1,
                                       !.lookups = a.lookups]
         [] OTHER ->
              [Resp(route, req) EXCEPT !.gate = "next", !.gateNext = 1, !.reqUser = a.user,
                                       !.lookups = a.lookups]

\* the callback authenticateJWT gives to passport.authenticate, applied to
\* what the strategy reported: 500 on error, 401 when no user, else
\* req.user = user; next()
authenticateJWTCallback(a, route, header) ==
    LET req == [header |-> header]
    IN CASE a.result = "error" ->
              [Resp(route, req) EXCEPT !.status = 500, !.code = "AUTH_ERROR",
                                       !.error = "Erro interno de autenticacao.",
                                       !.gate = "500", !.gateSent = 1,
                                       !.lookups = a.lookups]
         [] a.result = "fail" ->
              [Resp(route, req) EXCEPT !.status = 401, !.code = "INVALID_TOKEN",
                                       !.error = "Nao autorizado: Token invalido ou expirado.",
                                       !.gate = "401", !.gateSent = 1,
                                       !.lookups = a.lookups]
         [] OTHER ->
              [Resp(route, req) EXCEPT !.gate = "next", !.gateNext = 1, !.reqUser = a.user,
                                       !.lookups = a.lookups]

\* authenticateJWT
authenticateJWT(us, t, route, header) ==
    authenticateJWTCallback(JwtStrategy(us, t, header), route, header)

\* req.user = user || null
NullUser == [null |-> TRUE]

\* variant: an optional gate that hands an error to the error handler
optionalAuthCallbackSurfacesError(a, route, header) ==
    LET req == [header |-> header]
    IN IF a.result = "error"
       THEN [Resp(route, req) EXCEPT !.status = 500, !.code = "INTERNAL_ERROR",
                                     !.gate = "500", !.gateSent = 1,
                                     !.lookups = a.lookups]
       ELSE [Resp(route, req) EXCEPT !.gate = "next", !.gateNext = 1,
                                     !.reqUser = IF a.result = "success" THEN a.user
                                                 ELSE NullUser,
                                     !.handlerRan = TRUE, !.lookups = a.lookups]

\* the callback optionalAuth gives to passport.authenticate: an error is
\* logged only; req.user = user || null; next().  The handler behind it
\* runs and decides the status.
optionalAuthCallback(a, route, header) ==
    LET req == [header |-> header]
    IN [Resp(route, req) EXCEPT !.gate = "next", !.gateNext = 1,
                                !.reqUser = IF a.result = "success" THEN a.user
                                            ELSE NullUser,
                                !.handlerRan = TRUE,
                                !.lookups = a.lookups]

\* optionalAuth
optionalAuth(us, t, route, header) ==
    optionalAuthCallback(JwtStrategy(us, t, header), route, header)

(***************************************************************************)
(* routes/auth.js: the handlers, as functions of the store and the clock.  *)
(***************************************************************************)
\* variant: a limiter left with the default message of express-rate-limit,
\* a text and no code
RateLimitedDefaultMessage(route, req) ==
    [Resp(route, req) EXCEPT !.status = 429,
                             !.error = "Too many requests, please try again later."]

\* authLimiter: the response to a request over the limit
RateLimited(route, req) ==
    [Resp(route, req) EXCEPT !.status = 429, !.code = "AUTH_RATE_LIMIT_EXCEEDED",
        !.error = "Muitas tentativas de autenticacao. Tente novamente em 15 minutos."]

\* the error-handling middleware of server.js, reached through next(err):
\* status err.status || 500, body {error: err.message, code: err.code ||
\* "INTERNAL_ERROR"} (NODE_ENV is not production).  status 0 and code
\* Undefined stand for a property the error does not have.
ErrorHandler(route, req, err) ==
    [Resp(route, req) EXCEPT !.status = IF err.status = 0 THEN 500 ELSE err.status,
                             !.error = err.message,
                             !.code = IF err.code = Undefined THEN "INTERNAL_ERROR"
                                      ELSE err.code]

\* variant of POST /login: the password is not compared
LoginResponseNoCompare(us, t, req) ==
    LET user == findByEmail(us, normalizeEmail(req.email))
    IN IF ~isEmail(req.email) \/ req.password = ""
       THEN Fail("login", req, 400, "VALIDATION_ERROR", "Dados invalidos.")
       ELSE IF user = UndefinedUser
       THEN Fail("login", req, 401, "INVALID_CREDENTIALS", "Email ou senha incorretos.")
       ELSE IF user.password = NoPassword
       THEN Fail("login", req, 401, "OAUTH_ACCOUNT",
                 "Esta conta foi criada com Google. Use Entrar com Google.")
       ELSE [Resp("login", req) EXCEPT !.status = 200,
                                       !.tokens = generateTokenPair(user, t),
                                       !.bodyUser = toJSON(user),
                                       !.handlerRan = TRUE]

\* variant of POST /login: an unknown email has an answer of its own
LoginResponseUserNotFound(us, t, req) ==
    LET user == findByEmail(us, normalizeEmail(req.email))
    IN IF ~isEmail(req.email) \/ req.password = ""
       THEN Fail("login", req, 400, "VALIDATION_ERROR", "Dados invalidos.")
       ELSE IF user = UndefinedUser
       THEN Fail("login", req, 404, "USER_NOT_FOUND", "Usuario nao encontrado.")
       ELSE IF user.password = NoPassword
       THEN Fail("login", req, 401, "OAUTH_ACCOUNT",
                 "Esta conta foi criada com Google. Use Entrar com Google.")
       ELSE IF ~comparePassword(req.password, user.password)
       THEN Fail("login", req, 401, "INVALID_CREDENTIALS", "Email ou senha incorretos.")
       ELSE IF ~user.isInstance
       THEN Fail("login", req, 500, "INTERNAL_ERROR", "Erro interno do servidor.")
       ELSE [Resp("login", req) EXCEPT !.status = 200,
                                       !.tokens = generateTokenPair(user, t),
                                       !.bodyUser = toJSON(user),
                                       !.handlerRan = TRUE]

\* POST /login
LoginResponse(us, t, req) ==
    LET email == normalizeEmail(req.email)
        user == findByEmail(us, email)
    IN IF ~isEmail(req.email) \/ req.password = ""
       THEN Fail("login", req, 400, "VALIDATION_ERROR", "Dados invalidos.")
       ELSE IF user = UndefinedUser
       THEN Fail("login", req, 401, "INVALID_CREDENTIALS", "Email ou senha incorretos.")
       ELSE IF user.password = NoPassword
       THEN Fail("login", req, 401, "OAUTH_ACCOUNT",
                 "Esta conta foi criada com Google. Use Entrar com Google.")
       ELSE IF ~comparePassword(req.password, user.password)
       THEN Fail("login", req, 401, "INVALID_CREDENTIALS", "Email ou senha incorretos.")
       ELSE IF ~user.isInstance    \* user.toJSON is not a function
       THEN Fail("login", req, 500, "INTERNAL_ERROR", "Erro interno do servidor.")
       ELSE [Resp("login", req) EXCEPT !.status = 200,
                                       !.tokens = generateTokenPair(user, t),
                                       !.bodyUser = toJSON(user),
                                       !.handlerRan = TRUE]

\* the handler of GET /profile after the gate's response g
ProfileHandler(g) ==
    IF g.gate # "next" THEN g
    ELSE IF ~g.reqUser.isInstance    \* req.user.toJSON is not a function
    THEN [g EXCEPT !.status = 500, !.code = "INTERNAL_ERROR",
                   !.error = "Erro interno do servidor.", !.handlerRan = TRUE]
    ELSE [g EXCEPT !.status = 200, !.bodyUser = toJSON(g.reqUser),
                   !.handlerRan = TRUE]

\* GET /profile behind authenticateJWT
ProfileResponse(us, t, header) ==
    ProfileHandler(authenticateJWT(us, t, "profile", header))

\* POST /logout behind authenticateJWT
LogoutResponse(us, t, header) ==
    LET g == authenticateJWT(us, t, "logout", header)
    IN IF g.gate # "next" THEN g
       ELSE [g EXCEPT !.status = 200, !.handlerRan = TRUE]

\* variant of POST /refresh: the type claim is not looked at
RefreshResponseNoTypeCheck(us, t, req) ==
    LET v == validateToken(req.refreshToken, t)
        user == findById(us, v.decoded.userId)
    IN IF req.refreshToken = NoToken
       THEN Fail("refresh", req, 400, "MISSING_REFRESH_TOKEN", "Refresh token e obrigatorio.")
       ELSE IF ~v.ok
       THEN Fail("refresh", req, 401, "INVALID_REFRESH_TOKEN",
                 "Refresh token invalido ou expirado.")
       ELSE IF user = UndefinedUser
       THEN [Fail("refresh", req, 401, "USER_NOT_FOUND",
                  "Usuario nao encontrado para o refresh token.") EXCEPT !.lookups = 1]
       ELSE [Resp("refresh", req) EXCEPT !.status = 200,
                                         !.tokens = generateTokenPair(user, t),
                                         !.handlerRan = TRUE, !.lookups = 1]

\* POST /refresh
RefreshResponse(us, t, req) ==
    LET v == validateToken(req.refreshToken, t)
        user == findById(us, v.decoded.userId)
        \* error.message.includes("Token")
        includesToken == v.message \in {"Token expirado.", "Token invalido.",
                                        "Token ainda nao e valido."}
    IN IF req.refreshToken = NoToken
       THEN Fail("refresh", req, 400, "MISSING_REFRESH_TOKEN", "Refresh token e obrigatorio.")
       ELSE IF ~v.ok /\ includesToken
       THEN Fail("refresh", req, 401, "INVALID_REFRESH_TOKEN",
                 "Refresh token invalido ou expirado.")
       ELSE IF ~v.ok
       THEN Fail("refresh", req, 500, "INTERNAL_ERROR", "Erro interno do servidor.")
       ELSE IF v.decoded.type # "refresh"
       THEN Fail("refresh", req, 401, "INVALID_TOKEN_TYPE",
                 "Token invalido: Nao e um refresh token.")
       ELSE IF user = UndefinedUser
       THEN [Fail("refresh", req, 401, "USER_NOT_FOUND",
                  "Usuario nao encontrado para o refresh token.") EXCEPT !.lookups = 1]
       ELSE [Resp("refresh", req) EXCEPT !.status = 200,
                                         !.tokens = generateTokenPair(user, t),
                                         !.handlerRan = TRUE, !.lookups = 1]

\* GET /status
StatusResponse(t, header) ==
    LET req == [header |-> header]
        v == validateToken(header.value, t)
    IN IF header = NoHeader \/ header.scheme # "Bearer"
       THEN [Resp("status", req) EXCEPT !.status = 200, !.handlerRan = TRUE]
       ELSE IF v.ok
       THEN [Resp("status", req) EXCEPT !.status = 200, !.authenticated = TRUE,
                                        !.handlerRan = TRUE]
       \* message: `Token invalido ou expirado: ${error.message}`
       ELSE [Resp("status", req) EXCEPT !.status = 200, !.error = v.message,
                                        !.handlerRan = TRUE]

(***************************************************************************)
(* What clients send.                                                      *)
(***************************************************************************)
LoginRequests ==
    [ email    : {"Ana@x.com", "admin@exemplo.com", "google.user@exemplo.com", "bad"},
      password : {"", "admin123", "Senha1"} ]

RegisterRequests ==
    [ email    : {"Ana@x.com", "bad"},
      password : {"Senha1", "fraca"},
      name     : {"Ana"} ]

\* profiles Google hands to the strategy
\* (email = Undefined: a profile without `emails`)
GoogleProfiles ==
    { [id |-> "g-ana", email |-> "Ana@x.com", displayName |-> "Ana"],
      [id |-> "g-adm", email |-> "admin@exemplo.com", displayName |-> "Administrador"],
      [id |-> "g-tel", email |-> Undefined, displayName |-> "Tel"] }

\* a token and what an attacker or a sibling service can make of it: another
\* HMAC algorithm, no signature, another secret, another issuer or audience
TokenVariants(token) ==
    { token,
      [token EXCEPT !.alg = "HS512"],
      [token EXCEPT !.alg = "none", !.key = ""],
      [token EXCEPT !.key = "other-secret"],
      [token EXCEPT !.iss = "other-issuer"],
      [token EXCEPT !.aud = "other-audience"] }

Bearer(token) == [scheme |-> "Bearer", value |-> token]

\* Authorization headers sent to /profile and /status
Headers ==
    {NoHeader, Bearer(NoToken), Bearer(Garbage)}
    \cup (IF held = NoTokens THEN {}
          ELSE { Bearer(tok) : tok \in TokenVariants(held.accessToken) }
               \cup { Bearer(held.refreshToken),
                      [scheme |-> "bearer", value |-> held.accessToken],
                      [scheme |-> "Basic", value |-> held.accessToken] })

\* Authorization headers sent to routes behind optionalAuth
OptionalHeaders ==
    {NoHeader, Bearer(Garbage)}
    \cup (IF held = NoTokens THEN {}
          ELSE { Bearer(held.accessToken),
                 Bearer([held.accessToken EXCEPT !.key = "other-secret"]),
                 Bearer([held.accessToken EXCEPT !.aud = "other-audience"]) })

\* Authorization headers sent to /logout
LogoutHeaders ==
    {NoHeader}
    \cup (IF held = NoTokens THEN {}
          ELSE {Bearer(held.accessToken), Bearer(held.refreshToken)})

\* bodies sent to /refresh
RefreshRequests ==
    { [refreshToken |-> tok] :
        tok \in {NoToken, Garbage, Unparsable}
                \cup (IF held = NoTokens THEN {}
                      ELSE TokenVariants(held.refreshToken) \cup {held.accessToken}) }

(***************************************************************************)
(* The browser: frontend/js/utils.js (apiRequest, storage helpers) and     *)
(* frontend/js/auth.js.  location.href = "" when no navigation is under    *)
(* way; a navigation loads the page anew, and with it authState.           *)
(***************************************************************************)
\* a page that has just been loaded: no navigation under way, none of its
\* DOMContentLoaded handlers has run
LoadedPage(pathname) == [pathname |-> pathname, href |-> "", timer |-> FALSE, ran |-> {}]

\* window.location.href = target, at once or from a setTimeout callback
Navigate(loc, target, timer) == [loc EXCEPT !.href = target, !.timer = timer]

\* localStorage.getItem of a key that is not there
NoItem == [item |-> Null]

\* authState.token = null
NullToken == [token |-> Null]

\* `let authState = {...}` of auth.js
InitialAuthState == [isAuthenticated |-> FALSE, user |-> NullUser, token |-> NullToken]

\* localStorage after clearAuthData()
ClearedStorage == [auth_token |-> NoItem, user_data |-> NoItem]

\* AUTH_CONFIG.PUBLIC_PAGES
PUBLIC_PAGES == {"/", "/index.html", "/register.html"}

\* isLoggedIn(): authState.isAuthenticated && !!authState.token
isLoggedIn(as) == as.isAuthenticated /\ as.token # NullToken

\* the Authorization header apiRequest adds when a token is stored
AuthHeader(ls) == IF ls.auth_token = NoItem THEN NoHeader ELSE Bearer(ls.auth_token)

\* error.message.includes("401") || error.message.includes("Unauthorized")
Includes401(message) == message \in {"HTTP 401", "Unauthorized"}

\* apiRequest once the response r has arrived, in the browser state fs: the
\* data, or the Error thrown for a response that is not ok; a 401 clears
\* the stored token and user and, away from the login page, starts a
\* navigation to it
apiRequest(fs, r) ==
    IF r.status \in 200..299
    THEN [fs |-> fs, threw |-> FALSE, message |-> "", data |-> r]
    ELSE [fs |-> IF r.status # 401 THEN fs
                 ELSE [fs EXCEPT !.localStorage = ClearedStorage,
                                 !.location = IF @.pathname \in {"/", "/index.html"} THEN @
                                              ELSE Navigate(@, "/", FALSE)],
          threw |-> TRUE,
          \* data.error || data.message || `HTTP ${response.status}`
          message |-> IF r.error # "" THEN r.error
                      ELSE IF r.status = 401 THEN "HTTP 401" ELSE "HTTP error",
          data |-> r]

\* logout(showMessage): the server is told when a token is stored (its
\* answer is ignored), storage and authState are cleared, and the login
\* page is loaded
logout(fs, logoutResponse) ==
    LET told == IF fs.localStorage.auth_token # NoItem
                THEN apiRequest(fs, logoutResponse).fs ELSE fs
    IN [told EXCEPT !.localStorage = ClearedStorage,
                    !.authState = InitialAuthState,
                    !.location = Navigate(@, "/", TRUE)]

\* checkAuthentication() with the answers of GET /auth/status and, where it
\* logs out, of POST /auth/logout.  `response.user.email` is read before
\* authState is written: a body without `user` makes it a TypeError, which
\* the catch turns into isAuthenticated = false and `return false`.
checkAuthentication(fs, statusResponse, logoutResponse) ==
    LET token == fs.localStorage.auth_token
        a == apiRequest(fs, statusResponse)
    IN IF token = NoItem
       THEN [fs |-> [fs EXCEPT !.authState.isAuthenticated = FALSE], returned |-> FALSE]
       ELSE IF a.threw
       THEN [fs |-> [(IF Includes401(a.message) THEN logout(a.fs, logoutResponse) ELSE a.fs)
                        EXCEPT !.authState.isAuthenticated = FALSE],
             returned |-> FALSE]
       ELSE IF a.data.authenticated /\ a.data.bodyUser = UndefinedUser
       THEN [fs |-> [a.fs EXCEPT !.authState.isAuthenticated = FALSE], returned |-> FALSE]
       ELSE IF a.data.authenticated
       THEN [fs |-> [a.fs EXCEPT !.authState = [isAuthenticated |-> TRUE,
                                                user |-> a.data.bodyUser,
                                                token |-> token],
                                 !.localStorage.user_data = a.data.bodyUser],
             returned |-> TRUE]
       ELSE [fs |-> logout(a.fs, logoutResponse), returned |-> FALSE]

\* login(email, password) and register(userData) once the response r has
\* arrived: the token and the user are stored and authState is set
storeSession(fs, r) ==
    LET a == apiRequest(fs, r)
    IN IF a.threw THEN [fs |-> a.fs, returned |-> FALSE]
       ELSE [fs |-> [a.fs EXCEPT !.localStorage = [auth_token |-> a.data.tokens.accessToken,
                                                   user_data |-> a.data.bodyUser],
                                 !.authState = [isAuthenticated |-> TRUE,
                                                user |-> a.data.bodyUser,
                                                token |-> a.data.tokens.accessToken]],
             returned |-> TRUE]

\* loadUserProfile() once the response r of GET /auth/profile has arrived
loadUserProfile(fs, r) ==
    LET a == apiRequest(fs, r)
    IN IF a.threw THEN [fs |-> a.fs, returned |-> FALSE]
       ELSE [fs |-> [a.fs EXCEPT !.localStorage.user_data = a.data.bodyUser,
                                 !.authState.user = a.data.bodyUser],
             returned |-> TRUE]

(***************************************************************************)
(* server.js: the script that builds the application and starts to        *)
(* listen.  It runs from top to bottom in one turn of the event loop; an   *)
(* exception ends the process.  An environment says which variables are    *)
(* set.                                                                    *)
(***************************************************************************)
Envs ==
    [ JWT_SECRET        : BOOLEAN,
      GOOGLE_CLIENT_ID  : BOOLEAN,
      STRIPE_SECRET_KEY : BOOLEAN,
      PORT              : BOOLEAN,
      RATE_LIMIT_MAX    : BOOLEAN,
      FRONTEND_URL      : BOOLEAN,
      production        : BOOLEAN ]

\* the keys of what require("./config/passport") evaluates to: the
\* module.exports of config/passport.js
PassportModuleExports == {"passport", "authenticateJWT", "optionalAuth"}

\* the statements of server.js, in their order
ServerScript ==
    << "require ./config/passport", "require ./routes/auth", "require ./routes/email",
       "require ./routes/payment", "helmet", "cors", "limiter", "express.json",
       "express.urlencoded", "passport.initialize", "/api/health", "/api/auth",
       "/api/email", "/api/payment", "express.static", "catch-all", "error handler",
       "listen" >>

\* the exception a statement throws, "" when it completes: the strategies'
\* constructors need their secret and client id, and `passport` in server.js
\* is the object config/passport.js exports
Throws(statement, env) ==
    CASE statement = "require ./config/passport" /\ ~env.JWT_SECRET ->
            "TypeError: JwtStrategy requires a secret or key"
      [] statement = "require ./config/passport" /\ env.JWT_SECRET /\ ~env.GOOGLE_CLIENT_ID ->
            "TypeError: OAuth2Strategy requires a clientID option"
      [] statement = "passport.initialize" /\ "initialize" \notin PassportModuleExports ->
            "TypeError: passport.initialize is not a function"
      [] OTHER -> ""

\* the process before `node server.js`
Off(env) == [env |-> env, phase |-> "off", installed |-> <<>>, error |-> "", port |-> 0]

\* server.js run in environment env: the statements completed, and
\* listening on PORT || 3000 unless one of them threw
serverStart(env) ==
    LET k == FirstIndex({i \in 1..Len(ServerScript) : Throws(ServerScript[i], env) # ""})
    IN IF k = 0
       THEN [env |-> env, phase |-> "listening", installed |-> ServerScript, error |-> "",
             port |-> IF env.PORT THEN 8080 ELSE 3000]
       ELSE [env |-> env, phase |-> "crashed", installed |-> SubSeq(ServerScript, 1, k - 1),
             error |-> Throws(ServerScript[k], env), port |-> 0]

\* the routers at work in an application that has mounted them
RoutersMounted ==
    [ env |-> [JWT_SECRET |-> TRUE, GOOGLE_CLIENT_ID |-> TRUE, STRIPE_SECRET_KEY |-> TRUE,
               PORT |-> FALSE, RATE_LIMIT_MAX |-> FALSE, FRONTEND_URL |-> FALSE,
               production |-> FALSE],
      phase |-> "mounted", installed |-> <<"/api/auth", "/api/payment">>, error |-> "",
      port |-> 3000 ]

(***************************************************************************)
(* The state machine.                                                      *)
(***************************************************************************)
Init ==
    /\ users = SampleUsers
    /\ nextId = 3
    /\ now = 0
    /\ authLimited = FALSE
    /\ pending = <<>>
    /\ held = NoTokens
    /\ last = Idle
    /\ authState = InitialAuthState
    /\ localStorage = ClearedStorage
    /\ location = LoadedPage("/")
    /\ server = RoutersMounted
    /\ payments = <<>>

\* authLimiter (windowMs 15 minutes, max 5) counts every request to a path of
\* the router other than /profile and /logout, and answers 429 once the
\* count of the window exceeds max.  The router has counted paths that are
\* not followed here (GET /google, unknown paths), so the count can reach
\* max between any two requests: authLimited says that it has.
Admitted == ~authLimited

\* A request is sent once the response to the one before it has been read.
Ready == last = Idle

Login(req) ==
    /\ Ready
    /\ last' = IF Admitted THEN LoginResponse(users, now, req) ELSE RateLimited("login", req)
    /\ UNCHANGED <<users, nextId, now, authLimited, pending, held, front, server, payments>>

\* POST /register up to `await hashPassword(...)` inside User.create, with at
\* most maxPending requests waiting there
RegisterUpTo(req, maxPending) ==
    LET email == normalizeEmail(req.email)
        invalid == ~isEmail(req.email) \/ ~StrongPassword(req.password) \/ ~ValidName(req.name)
        existing == findByEmail(users, email)
    IN /\ Ready
          /\ IF ~Admitted
          THEN /\ last' = RateLimited("register", req)
               /\ UNCHANGED pending
          ELSE IF invalid
          THEN /\ last' = Fail("register", req, 400, "VALIDATION_ERROR", "Dados invalidos.")
               /\ UNCHANGED pending
          ELSE IF existing # UndefinedUser
          THEN /\ last' = Fail("register", req, 409, "EMAIL_ALREADY_EXISTS", "E-mail ja esta em uso.")
               /\ UNCHANGED pending
          ELSE /\ Len(pending) < maxPending
               /\ pending' = Append(pending, [email |-> email, password |-> req.password,
                                              name |-> req.name])
               /\ last' = Resp("register", req)
       /\ UNCHANGED <<users, nextId, now, authLimited, held, front, server, payments>>

Register(req) == RegisterUpTo(req, MaxPending)

\* POST /register from the end of hashPassword: new User, push, tokens, 201;
\* ids up to maxUsers
RegisterFinishUpTo(i, maxUsers) ==
    LET p == pending[i]
        newUser == NewUser(nextId, [email |-> p.email, password |-> hashPassword(p.password),
                                    name |-> p.name, googleId |-> Undefined,
                                    authProvider |-> "local"])
    IN /\ Ready
       /\ nextId <= maxUsers
       /\ users' = Append(users, newUser)
       /\ nextId' = nextId + 1
       /\ pending' = SubSeq(pending, 1, i - 1) \o SubSeq(pending, i + 1, Len(pending))
       /\ last' = [Resp("register", p) EXCEPT !.status = 201,
                                             !.tokens = generateTokenPair(newUser, now),
                                             !.bodyUser = toJSON(newUser),
                                             !.handlerRan = TRUE]
       /\ UNCHANGED <<now, authLimited, held, front, server, payments>>

RegisterFinish(i) == RegisterFinishUpTo(i, MaxUsers)

\* GET /google/callback: the Google strategy's verify callback, then the handler
GoogleCallback(profile) ==
    LET byGoogleId == findByGoogleId(users, profile.id)
        byEmail == findByEmail(users, profile.email)
        newUser == NewUser(nextId, [email |-> profile.email, password |-> NoPassword,
                                    name |-> profile.displayName, googleId |-> profile.id,
                                    authProvider |-> "google"])
        Answer(user) ==
            IF ~user.isInstance    \* req.user.toJSON is not a function
            THEN [Fail("google", profile, 500, "GOOGLE_AUTH_ERROR", "Erro no login com Google.")
                    EXCEPT !.reqUser = user]
            ELSE [Resp("google", profile) EXCEPT !.status = 200,
                                                 !.tokens = generateTokenPair(user, now),
                                                 !.bodyUser = toJSON(user),
                                                 !.reqUser = user,
                                                 !.handlerRan = TRUE]
    IN /\ Ready
          /\ IF ~Admitted
          THEN /\ last' = RateLimited("google", profile)
               /\ UNCHANGED <<users, nextId>>
          ELSE IF profile.email = Undefined
          \* profile.emails[0] throws: catch -> done(error, null) -> next(err)
          THEN /\ last' = ErrorHandler("google", profile,
                               [message |-> "Cannot read properties of undefined",
                                status |-> 0, code |-> Undefined])
               /\ UNCHANGED <<users, nextId>>
          ELSE IF byGoogleId # UndefinedUser
          THEN /\ last' = Answer(byGoogleId)
               /\ UNCHANGED <<users, nextId>>
          ELSE IF byEmail # UndefinedUser
          THEN /\ users' = updateGoogleData(users, byEmail.id,
                                            [googleId |-> profile.id, provider |-> "google"])
               /\ last' = Answer(findById(users', byEmail.id))
               /\ UNCHANGED nextId
          ELSE /\ nextId <= MaxUsers
               /\ users' = Append(users, newUser)
               /\ nextId' = nextId + 1
               /\ last' = Answer(newUser)
       /\ UNCHANGED <<now, authLimited, pending, held, front, server, payments>>

\* GET /profile: authLimiter skips it
Profile(header) ==
    /\ Ready
    /\ last' = ProfileResponse(users, now, header)
    /\ UNCHANGED <<users, nextId, now, authLimited, pending, held, front, server, payments>>

\* variant: a logout that authLimiter does not skip and that fills its window
LogoutCounted(header) ==
    /\ Ready
    /\ last' = LogoutResponse(users, now, header)
    /\ authLimited' = TRUE
    /\ UNCHANGED <<users, nextId, now, pending, held, front, server, payments>>

\* POST /logout: authLimiter skips it
Logout(header) ==
    /\ Ready
    /\ last' = LogoutResponse(users, now, header)
    /\ UNCHANGED <<users, nextId, now, authLimited, pending, held, front, server, payments>>

Refresh(req) ==
    /\ Ready
    /\ last' = IF Admitted THEN RefreshResponse(users, now, req) ELSE RateLimited("refresh", req)
    /\ UNCHANGED <<users, nextId, now, authLimited, pending, held, front, server, payments>>

Status(header) ==
    /\ Ready
    /\ last' = IF Admitted THEN StatusResponse(now, header)
               ELSE RateLimited("status", [header |-> header])
    /\ UNCHANGED <<users, nextId, now, authLimited, pending, held, front, server, payments>>

\* a request to a route behind optionalAuth (routes/payment.js)
Optional(header) ==
    /\ Ready
    /\ last' = optionalAuth(users, now, "optional", header)
    /\ UNCHANGED <<users, nextId, now, authLimited, pending, held, front, server, payments>>

\* User.delete(id)
Delete(id) ==
    /\ Ready
    /\ findById(users, id) # UndefinedUser
    /\ users' = deleteUser(users, id)
    /\ UNCHANGED <<nextId, now, authLimited, pending, held, last, front, server, payments>>

\* a day passes: the limiter's 15-minute window is over
Tick ==
    /\ Ready
    /\ now < MaxTime
    /\ now' = now + 1
    /\ authLimited' = FALSE
    /\ UNCHANGED <<users, nextId, pending, held, last, front, server, payments>>

\* the client sends requests to counted paths of the router that are not
\* followed here, until the limiter's count reaches max
OtherAuthRequests ==
    /\ Ready
    /\ ~authLimited
    /\ authLimited' = TRUE
    /\ UNCHANGED <<users, nextId, now, pending, held, last, front, server, payments>>

\* 15 minutes pass within the day: the limiter starts a new window
WindowEnds ==
    /\ Ready
    /\ authLimited
    /\ authLimited' = FALSE
    /\ UNCHANGED <<users, nextId, now, pending, held, last, front, server, payments>>

\* the client reads the response, and keeps the token pair it carries or not
Read ==
    /\ last # Idle
    /\ last' = Idle
    /\ \/ held' = held
       \/ last.tokens # NoTokens /\ held' = last.tokens /\ held' # held
    /\ UNCHANGED <<users, nextId, now, authLimited, pending, front, server, payments>>

Next ==
    \/ \E req \in LoginRequests : Login(req)
    \/ \E req \in RegisterRequests : Register(req)
    \/ \E i \in 1..Len(pending) : RegisterFinish(i)
    \/ \E profile \in GoogleProfiles : GoogleCallback(profile)
    \/ \E header \in Headers : Profile(header)
    \/ \E header \in LogoutHeaders : Logout(header)
    \/ \E req \in RefreshRequests : Refresh(req)
    \/ \E header \in Headers : Status(header)
    \/ \E header \in OptionalHeaders : Optional(header)
    \/ \E id \in 1..MaxUsers : Delete(id)
    \/ Tick
    \/ OtherAuthRequests
    \/ WindowEnds
    \/ Read

Spec == Init /\ [][Next]_vars

(***************************************************************************)
(* Registrations that overlap: a second POST /register is handled while    *)
(* the first one awaits bcrypt inside User.create.                         *)
(***************************************************************************)
NextRegisterRace ==
    \/ \E req \in RegisterRequests : RegisterUpTo(req, MaxRacePending)
    \/ \E i \in 1..Len(pending) : RegisterFinishUpTo(i, MaxRaceUsers)
    \/ \E profile \in GoogleProfiles : GoogleCallback(profile)
    \/ \E req \in LoginRequests : Login(req)
    \/ Read

SpecRegisterRace == Init /\ [][NextRegisterRace]_vars

(***************************************************************************)
(* The same gates over a user store whose lookup can fail: the verify      *)
(* callback awaits User.findById inside try/catch.  The in-memory store    *)
(* never rejects; a store that does (a database) is what the catch is for. *)
(***************************************************************************)
LookupThrows(header) == [header |-> header, lookupThrows |-> TRUE]

\* GET /profile while User.findById rejects
ProfileLookupThrows(header) ==
    /\ Ready
    /\ last' = [ProfileHandler(authenticateJWTCallback(
                     JwtStrategyLookupThrows(users, now, header), "profile", header))
                EXCEPT !.req = LookupThrows(header)]
    /\ UNCHANGED <<users, nextId, now, authLimited, pending, held, front, server, payments>>

\* a request behind optionalAuth while User.findById rejects
OptionalLookupThrows(header) ==
    /\ Ready
    /\ last' = [optionalAuthCallback(
                     JwtStrategyLookupThrows(users, now, header), "optional", header)
                EXCEPT !.req = LookupThrows(header)]
    /\ UNCHANGED <<users, nextId, now, authLimited, pending, held, front, server, payments>>

NextStoreFault ==
    \/ \E req \in LoginRequests : Login(req)
    \/ \E header \in Headers : Profile(header)
    \/ \E header \in Headers : ProfileLookupThrows(header)
    \/ \E header \in Headers : OptionalLookupThrows(header)
    \/ \E id \in 1..MaxUsers : Delete(id)
    \/ Tick
    \/ Read

SpecStoreFault == Init /\ [][NextStoreFault]_vars

(***************************************************************************)
(* The two gates with every outcome they have: tokens of every kind, users *)
(* that are deleted or linked, and a lookup that fails.                    *)
(***************************************************************************)
NextGates ==
    \/ \E req \in LoginRequests : Login(req)
    \/ \E profile \in GoogleProfiles : GoogleCallback(profile)
    \/ \E header \in Headers : Profile(header)
    \/ \E header \in LogoutHeaders : Logout(header)
    \/ \E header \in OptionalHeaders : Optional(header)
    \/ \E header \in Headers : ProfileLookupThrows(header)
    \/ \E header \in Headers : OptionalLookupThrows(header)
    \/ \E id \in 1..MaxUsers : Delete(id)
    \/ Tick
    \/ Read

SpecGates == Init /\ [][NextGates]_vars

(***************************************************************************)
(* The routes that answer with a user, over a store whose users are also   *)
(* changed through User.update.                                            *)
(***************************************************************************)
UserUpdates == {[name |-> "Novo Nome"], [password |-> "Nova1"]}

\* User.update(id, updates)
UpdateUser(id, updates) ==
    /\ Ready
    /\ findById(users, id) # UndefinedUser
    /\ users' = update(users, id, updates)
    /\ users' # users
    /\ UNCHANGED <<nextId, now, authLimited, pending, held, last, front, server, payments>>

UpdatedLoginRequests ==
    LoginRequests \cup [email : {"admin@exemplo.com"}, password : {"Nova1"}]

NextStoreUpdate ==
    \/ \E req \in UpdatedLoginRequests : Login(req)
    \/ \E req \in RegisterRequests : Register(req)
    \/ \E i \in 1..Len(pending) : RegisterFinish(i)
    \/ \E profile \in GoogleProfiles : GoogleCallback(profile)
    \/ \E header \in LogoutHeaders : Profile(header)
    \/ \E id \in 1..MaxUsers, updates \in UserUpdates : UpdateUser(id, updates)
    \/ Read

SpecStoreUpdate == Init /\ [][NextStoreUpdate]_vars

(***************************************************************************)
(* The browser and the server together.  A call of a frontend function is  *)
(* one step: the request it sends is answered by the handlers above in the *)
(* store and at the time of the step.  `last` records the call.            *)
(***************************************************************************)
FrontState == [authState |-> authState, localStorage |-> localStorage, location |-> location]

SetFront(fs) ==
    /\ authState' = fs.authState
    /\ localStorage' = fs.localStorage
    /\ location' = fs.location

\* the page is open and its scripts run: no navigation has started, or one
\* waits for its timer
PageAlive == location.href = "" \/ location.timer

\* the DOMContentLoaded handlers of the page have run: the user acts
PageReady ==
    /\ PageAlive
    /\ "protectPage" \in location.ran
    /\ location.pathname = "/" => "initLoginPage" \in location.ran
    /\ location.pathname = "/dashboard.html" => "initDashboardPage" \in location.ran

\* what the server answers to the browser's requests
StatusAnswer ==
    IF Admitted THEN StatusResponse(now, AuthHeader(localStorage))
    ELSE RateLimited("status", [header |-> AuthHeader(localStorage)])

LogoutAnswer == LogoutResponse(users, now, AuthHeader(localStorage))

ProfileAnswer == ProfileResponse(users, now, AuthHeader(localStorage))

LoginAnswer(req) ==
    IF Admitted THEN LoginResponse(users, now, req) ELSE RateLimited("login", req)

\* the record of a call: the token that was stored when it was made, the
\* answer of the server it depends on, and what it returned
Call(name, response, returned) ==
    [route |-> name, stored |-> localStorage.auth_token, pathname |-> location.pathname,
     response |-> response, returned |-> returned]

\* redirectToLogin() unless authenticated
RedirectUnless(c) ==
    IF c.returned THEN c.fs
    ELSE [c.fs EXCEPT !.location = Navigate(@, "/", FALSE)]

\* the DOMContentLoaded handler of auth.js: protectPage()
ProtectPage ==
    LET c == checkAuthentication(FrontState, StatusAnswer, LogoutAnswer)
        fs == IF location.pathname \in PUBLIC_PAGES THEN FrontState ELSE RedirectUnless(c)
    IN /\ Ready /\ PageAlive
       /\ "protectPage" \notin location.ran
       /\ SetFront([fs EXCEPT !.location.ran = @ \cup {"protectPage"}])
       /\ last' = Call("protectPage", StatusAnswer, c.returned)
       /\ UNCHANGED <<users, nextId, now, authLimited, pending, held, server, payments>>

\* the DOMContentLoaded handler of dashboard.js: initDashboardPage()
InitDashboardPage ==
    LET c == checkAuthentication(FrontState, StatusAnswer, LogoutAnswer)
        fs == RedirectUnless(c)
    IN /\ Ready /\ PageAlive
       /\ location.pathname = "/dashboard.html"
       /\ "initDashboardPage" \notin location.ran
       /\ SetFront([fs EXCEPT !.location.ran = @ \cup {"initDashboardPage"}])
       /\ last' = Call("initDashboardPage", StatusAnswer, c.returned)
       /\ UNCHANGED <<users, nextId, now, authLimited, pending, held, server, payments>>

\* the DOMContentLoaded handler of the login page: checkIfAlreadyLoggedIn()
InitLoginPage ==
    LET c == checkAuthentication(FrontState, StatusAnswer, LogoutAnswer)
        fs == IF c.returned
              THEN [c.fs EXCEPT !.location = Navigate(@, "/dashboard.html", TRUE)]
              ELSE c.fs
    IN /\ Ready /\ PageAlive
       /\ location.pathname = "/"
       /\ "initLoginPage" \notin location.ran
       /\ SetFront([fs EXCEPT !.location.ran = @ \cup {"initLoginPage"}])
       /\ last' = Call("checkAuthentication", StatusAnswer, c.returned)
       /\ UNCHANGED <<users, nextId, now, authLimited, pending, held, server, payments>>

\* the login form: login(email, password), then the dashboard after 1.5 s
FrontLogin(req) ==
    LET c == storeSession(FrontState, LoginAnswer(req))
        fs == IF c.returned
              THEN [c.fs EXCEPT !.location = Navigate(@, "/dashboard.html", TRUE)]
              ELSE c.fs
    IN /\ Ready /\ PageReady
       /\ location.pathname = "/"
       /\ SetFront(fs)
       /\ last' = Call("login", LoginAnswer(req), c.returned)
       /\ UNCHANGED <<users, nextId, now, authLimited, pending, held, server, payments>>

\* the logout button: logout()
FrontLogout ==
    /\ Ready /\ PageReady
    /\ SetFront(logout(FrontState, LogoutAnswer))
    /\ last' = Call("logout", LogoutAnswer, TRUE)
    /\ UNCHANGED <<users, nextId, now, authLimited, pending, held, server, payments>>

\* loadUserProfile()
FrontLoadUserProfile ==
    LET c == loadUserProfile(FrontState, ProfileAnswer)
    IN /\ Ready /\ PageReady
       /\ SetFront(c.fs)
       /\ last' = Call("loadUserProfile", ProfileAnswer, c.returned)
       /\ UNCHANGED <<users, nextId, now, authLimited, pending, held, server, payments>>

\* the navigation that was started takes place: the page is loaded and its
\* scripts start with a fresh authState
PageLoad ==
    /\ Ready
    /\ location.href # ""
    /\ location' = LoadedPage(location.href)
    /\ authState' = InitialAuthState
    /\ UNCHANGED <<users, nextId, now, authLimited, pending, held, last, localStorage, server, payments>>

\* the user opens a page
Open(pathname) ==
    /\ Ready
    /\ location' = LoadedPage(pathname)
    /\ authState' = InitialAuthState
    /\ UNCHANGED <<users, nextId, now, authLimited, pending, held, last, localStorage, server, payments>>

\* the call has returned
Returned ==
    /\ last # Idle
    /\ last' = Idle
    /\ UNCHANGED <<users, nextId, now, authLimited, pending, held, front, server, payments>>

FrontLoginRequests ==
    [ email    : {"admin@exemplo.com", "google.user@exemplo.com"},
      password : {"admin123", "Senha1"} ]

NextFrontend ==
    \/ ProtectPage
    \/ InitDashboardPage
    \/ InitLoginPage
    \/ \E req \in FrontLoginRequests : FrontLogin(req)
    \/ FrontLogout
    \/ FrontLoadUserProfile
    \/ PageLoad
    \/ \E pathname \in {"/", "/dashboard.html"} : Open(pathname)
    \/ Returned
    \/ \E id \in 1..MaxUsers : Delete(id)
    \/ Tick
    \/ OtherAuthRequests
    \/ WindowEnds

SpecFrontend == Init /\ [][NextFrontend]_vars

(***************************************************************************)
(* routes/payment.js: the local payment records and the Stripe webhook.    *)
(***************************************************************************)
\* `undefined` where a payment record is expected
NoPayment == [id |-> 0, stripePaymentIntentId |-> "", amount |-> 0, status |-> ""]

\* Payment.findByStripeId: the first record of that PaymentIntent, or NoPayment
findByStripeId(ps, stripeId) ==
    LET k == FirstIndex({i \in 1..Len(ps) : ps[i].stripePaymentIntentId = stripeId})
    IN IF k = 0 THEN NoPayment ELSE ps[k]

\* Payment.updateStatus: the record of that local id gets the status; an id
\* of 0 stands for `undefined`, which matches no record
updateStatus(ps, id, status) ==
    [i \in 1..Len(ps) |-> IF ps[i].id = id THEN [ps[i] EXCEPT !.status = status] ELSE ps[i]]

\* `Payment.findByStripeId(x)?.id`
idOfStripeId(ps, stripeId) ==
    findByStripeId(ps, stripeId).id

PaymentIntentIds == {"pi_1", "pi_2", "pi_3"}

\* what Stripe answers to paymentIntents.create: a new PaymentIntent or an error
StripeCreateAnswers == PaymentIntentIds \cup {"StripeInvalidRequestError", "StripeConnectionError"}

Amounts == {49, 50, 1000}

\* POST /api/payment/create-payment-intent: a valid amount and a PaymentIntent
\* made by Stripe leave a pending local record
CreatePaymentIntent(amount, answer) ==
    /\ Ready
    /\ Len(payments) < MaxPayments
    /\ answer \in PaymentIntentIds => findByStripeId(payments, answer) = NoPayment
    /\ IF amount < 50
       THEN /\ last' = [route |-> "create-payment-intent", req |-> amount, status |-> 400,
                        code |-> "VALIDATION_ERROR", payment |-> 0, tokens |-> NoTokens]
            /\ UNCHANGED payments
       ELSE IF answer = "StripeInvalidRequestError"
       THEN /\ last' = [route |-> "create-payment-intent", req |-> amount, status |-> 400,
                        code |-> "STRIPE_INVALID_REQUEST", payment |-> 0, tokens |-> NoTokens]
            /\ UNCHANGED payments
       ELSE IF answer \notin PaymentIntentIds
       THEN /\ last' = [route |-> "create-payment-intent", req |-> amount, status |-> 500,
                        code |-> "PAYMENT_PROCESSING_ERROR", payment |-> 0, tokens |-> NoTokens]
            /\ UNCHANGED payments
       ELSE /\ payments' = Append(payments,
                                  [id |-> Len(payments) + 1, stripePaymentIntentId |-> answer,
                                   amount |-> amount, status |-> "pending"])
            /\ last' = [route |-> "create-payment-intent", req |-> amount, status |-> 200,
                        code |-> "", payment |-> Len(payments) + 1, tokens |-> NoTokens]
    /\ UNCHANGED <<users, nextId, now, authLimited, pending, held, front, server>>

EventTypes ==
    {"payment_intent.succeeded", "payment_intent.payment_failed", "payment_intent.canceled",
     "charge.refunded"}

\* a webhook request as Stripe or anyone else sends it: the JSON text of an
\* event, its Content-Type, and whether the Stripe-Signature header is the
\* HMAC of that text under STRIPE_WEBHOOK_SECRET
WebhookRequests ==
    [ type : EventTypes, object : PaymentIntentIds,
      contentType : {"application/json; charset=utf-8", "text/plain"},
      signed : BOOLEAN ]

\* the body parser a request has been through leaves req.body as raw bytes
\* ("Buffer"), as the parsed value ("object") or as the empty object set by a
\* parser that does not handle the Content-Type ("empty")
IsJson(contentType) == contentType = "application/json; charset=utf-8"

\* app.use(express.json(...)) of server.js: a JSON body is read and parsed
expressJson(req) ==
    IF IsJson(req.contentType)
    THEN [req |-> req, body |-> "object", parsed |-> TRUE]
    ELSE [req |-> req, body |-> "empty", parsed |-> FALSE]

\* express.raw({type: "application/json"}) of the route: a body that a parser
\* has read already is left as it is
expressRaw(r) ==
    IF r.parsed THEN r
    ELSE IF IsJson(r.req.contentType)
    THEN [r EXCEPT !.body = "Buffer", !.parsed = TRUE]
    ELSE r

\* stripe.webhooks.constructEvent(req.body, sig, secret): "" when the event
\* is verified, else the message of what it throws.  Without
\* STRIPE_SECRET_KEY `stripe` is undefined.
constructEvent(r, env) ==
    IF ~env.STRIPE_SECRET_KEY
    THEN "Cannot read properties of undefined (reading 'webhooks')"
    ELSE IF r.body # "Buffer"
    THEN "Webhook payload must be provided as a string or a Buffer"
    ELSE IF ~r.req.signed
    THEN "No signatures found matching the expected signature for payload"
    ELSE ""

\* the status the route's switch writes for an event type, "" for the others
StatusOfEvent(type) ==
    CASE type = "payment_intent.succeeded" -> "succeeded"
      [] type = "payment_intent.payment_failed" -> "failed"
      [] type = "payment_intent.canceled" -> "canceled"
      [] OTHER -> ""

\* the route's handler, for a request that has been through the parsers
webhook(ps, r, env) ==
    IF constructEvent(r, env) # ""
    THEN [payments |-> ps, status |-> 400, received |-> FALSE, text |-> constructEvent(r, env)]
    ELSE [payments |-> IF StatusOfEvent(r.req.type) = "" THEN ps
                       ELSE updateStatus(ps, idOfStripeId(ps, r.req.object),
                                         StatusOfEvent(r.req.type)),
          status |-> 200, received |-> TRUE, text |-> ""]

\* POST /api/payment/webhook through the application: express.json of
\* server.js, then express.raw of the route, then the handler
Webhook(req) ==
    /\ Ready
    /\ LET w == webhook(payments, expressRaw(expressJson(req)), server.env)
       IN /\ payments' = w.payments
          /\ last' = [route |-> "webhook", req |-> req, status |-> w.status,
                      received |-> w.received, text |-> w.text, before |-> payments,
                      tokens |-> NoTokens]
    /\ UNCHANGED <<users, nextId, now, authLimited, pending, held, front, server>>

\* GET /api/payment/payment-status/:id brings the local status to what Stripe
\* reports for the PaymentIntent
PaymentStatus(id, stripeStatus) ==
    /\ Ready
    /\ IF id \in 1..Len(payments)
       THEN /\ payments' = updateStatus(payments, id, stripeStatus)
            /\ last' = [route |-> "payment-status", req |-> id, status |-> 200,
                        code |-> "", payment |-> id, tokens |-> NoTokens]
       ELSE /\ last' = [route |-> "payment-status", req |-> id, status |-> 404,
                        code |-> "PAYMENT_NOT_FOUND", payment |-> 0, tokens |-> NoTokens]
            /\ UNCHANGED payments
    /\ UNCHANGED <<users, nextId, now, authLimited, pending, held, front, server>>

NextWebhook ==
    \/ \E amount \in Amounts, answer \in StripeCreateAnswers : CreatePaymentIntent(amount, answer)
    \/ \E req \in WebhookRequests : Webhook(req)
    \/ \E id \in 1..MaxPayments, s \in {"succeeded", "canceled"} : PaymentStatus(id, s)
    \/ Read

SpecWebhook == Init /\ [][NextWebhook]_vars

(***************************************************************************)
(* Starting the server.                                                    *)
(***************************************************************************)
InitStartup ==
    /\ users = <<>>
    /\ nextId = 1
    /\ now = 0
    /\ authLimited = FALSE
    /\ pending = <<>>
    /\ held = NoTokens
    /\ last = Idle
    /\ authState = InitialAuthState
    /\ localStorage = ClearedStorage
    /\ location = LoadedPage("/")
    /\ server \in {Off(env) : env \in Envs}
    /\ payments = <<>>

\* node server.js
Start ==
    /\ server.phase = "off"
    /\ server' = serverStart(server.env)
    /\ UNCHANGED <<users, nextId, now, authLimited, pending, held, last, front, payments>>

\* the process ends (it crashed, or it is stopped)
Stop ==
    /\ server.phase # "off"
    /\ server' = Off(server.env)
    /\ UNCHANGED <<users, nextId, now, authLimited, pending, held, last, front, payments>>

NextStartup == Start \/ Stop

SpecStartup == InitStartup /\ [][NextStartup]_vars

(***************************************************************************)
(* isTokenNearExpiry of utils/jwt.js, called on its own.  Here the clock   *)
(* `now` is Date.now() in milliseconds and exp is in seconds, both counted *)
(* from the same origin.                                                   *)
(***************************************************************************)
ClockStep == 10 * 60 * 1000

\* tokens handed to isTokenNearExpiry: strings that are not JWTs, and JWTs
\* with or without an exp claim, signed with the configured secret or not
ExpiryTokens ==
    {NoToken, Garbage, Unparsable}
    \cup { [jwtSign([userId |-> 1, email |-> "admin@exemplo.com", name |-> "Administrador",
                      type |-> Undefined],
                     key,
                     [expiresIn |-> 0, issuer |-> JWT_CONFIG.issuer,
                      audience |-> JWT_CONFIG.audience, algorithm |-> JWT_CONFIG.algorithm],
                     0) EXCEPT !.exp = exp] :
              key \in {JWT_CONFIG.secret, "other-secret", ""},
              exp \in {NoExp, 0, 600, 1800, 3600, 5400} }

\* thresholdMinutes, given or not
Thresholds == {NotGiven, 0, 30, 60}

InitNearExpiry ==
    /\ users = SampleUsers
    /\ nextId = 3
    /\ now = 0
    /\ authLimited = FALSE
    /\ pending = <<>>
    /\ held = NoTokens
    /\ last = Idle
    /\ authState = InitialAuthState
    /\ localStorage = ClearedStorage
    /\ location = LoadedPage("/")
    /\ server = RoutersMounted
    /\ payments = <<>>

\* a call of isTokenNearExpiry(token, thresholdMinutes)
NearExpiryCall(token, thresholdMinutes) ==
    /\ last' = [ route  |-> "isTokenNearExpiry",
                 req    |-> [token |-> token, thresholdMinutes |-> thresholdMinutes],
                 at     |-> now,
                 result |-> isTokenNearExpiry(token, thresholdMinutes, now) ]
    /\ UNCHANGED <<users, nextId, now, authLimited, pending, held, front, server, payments>>

\* ten minutes pass
ClockAdvance ==
    /\ now < MaxClockSteps * ClockStep
    /\ now' = now + ClockStep
    /\ UNCHANGED <<users, nextId, authLimited, pending, held, last, front, server, payments>>

NextNearExpiry ==
    \/ \E token \in ExpiryTokens, thresholdMinutes \in Thresholds :
            NearExpiryCall(token, thresholdMinutes)
    \/ ClockAdvance

SpecNearExpiry == InitNearExpiry /\ [][NextNearExpiry]_vars

(***************************************************************************)
(* Properties.  `last` is read in the state the handler leaves: no other   *)
(* step is taken before the response is read.                              *)
(***************************************************************************)
UserIds == {users[i].id : i \in 1..Len(users)}

GateRoute == last.route \in {"profile", "logout"}

\* the route handler received the request (authLimiter did not answer it)
Handled(route) == last.route = route /\ last.status # 429 /\ last.status # 0

\* the five checks a token has to pass, stated on the token itself
PassesAllChecks(token, t) ==
    /\ token.form = "jwt"
    /\ token.key = JWT_CONFIG.secret
    /\ token.alg = JWT_CONFIG.algorithm
    /\ token.iss = JWT_CONFIG.issuer
    /\ token.aud = JWT_CONFIG.audience
    /\ t < token.exp

\* what the client sees of a response
Body(r) == [status |-> r.status, code |-> r.code, error |-> r.error,
            tokens |-> r.tokens, bodyUser |-> r.bodyUser]

\* C1: POST /login answers 200 with a token pair only if some user of the
\* store has the submitted (normalized) email, has a password hash, and the
\* submitted password matches it; both tokens carry that user's id.  No
\* other login response carries tokens.
C1_LoginIssuesTokensOnlyForCredentials ==
    last.route = "login" =>
        /\ last.tokens # NoTokens => last.status = 200
        /\ last.status = 200 =>
            /\ last.tokens # NoTokens
            /\ isEmail(last.req.email)
            /\ \E i \in 1..Len(users) :
                /\ users[i].email = normalizeEmail(last.req.email)
                /\ users[i].password # NoPassword
                /\ users[i].password.plain = last.req.password
                /\ last.tokens.accessToken.userId = users[i].id
                /\ last.tokens.refreshToken.userId = users[i].id

C1_Witness ==
    /\ last.route = "login"
    /\ last.status = 200
    /\ last.req.email = "Ana@x.com"
    /\ last.tokens.accessToken.userId = 3

\* (The store and the clock do not change while a response is outstanding,
\* so the functions are applied in the states between requests.)
\* C2: for every user U of the store, the access token generated for U now
\* validates at every time before its expiry, and the claims returned carry
\* U's id, email and name.
C2_AccessTokenRoundTrip ==
    \A i \in (IF Ready THEN 1..Len(users) ELSE {}) :
        LET token == generateAccessToken(users[i], now)
        IN \A t \in now..(token.exp - 1) :
            LET v == validateToken(token, t)
            IN /\ v.ok
               /\ v.decoded.userId = users[i].id
               /\ v.decoded.email = users[i].email
               /\ v.decoded.name = users[i].name

C2_Witness ==
    /\ now > 0
    /\ \E i \in 1..Len(users) :
        /\ users[i].id = 3
        /\ validateToken(generateAccessToken(users[i], now), now).ok

\* C3: an access token issued by generateTokenPair, presented unexpired as
\* `Authorization: Bearer <token>` while its user is in the store, passes
\* authenticateJWT: req.user is the store's user with the token's userId and
\* the downstream handler runs.
C3_IssuedAccessTokenPassesGate ==
    ( /\ GateRoute
      /\ held # NoTokens
      /\ last.req.header = Bearer(held.accessToken)
      /\ now < held.accessToken.exp
      /\ held.accessToken.userId \in UserIds )
    => /\ last.gate = "next"
       /\ last.handlerRan
       /\ last.reqUser.id = held.accessToken.userId
       /\ \E i \in 1..Len(users) : users[i] = last.reqUser

C3_Witness ==
    /\ last.route = "profile"
    /\ held # NoTokens
    /\ last.req.header = Bearer(held.accessToken)
    /\ last.gate = "next"
    /\ last.status = 200

\* C4: a refresh token (type = "refresh") presented as the bearer token to a
\* route behind authenticateJWT is answered 401: no user is attached and the
\* handler does not run.
C4_RefreshTokenRejectedByGate ==
    ( /\ GateRoute
      /\ last.req.header # NoHeader
      /\ last.req.header.value.form = "jwt"
      /\ last.req.header.value.type = "refresh" )
    => /\ last.status = 401
       /\ last.reqUser = UndefinedUser
       /\ ~last.handlerRan

\* C5: POST /refresh with a validly signed, unexpired token that is not a
\* refresh token answers 401 INVALID_TOKEN_TYPE and issues no tokens; that
\* code is never the answer to a token that fails signature or expiry.
C5_AccessTokenAtRefresh ==
    Handled("refresh") =>
        /\ ( PassesAllChecks(last.req.refreshToken, now)
             /\ last.req.refreshToken.type # "refresh" )
           => /\ last.status = 401
              /\ last.code = "INVALID_TOKEN_TYPE"
              /\ last.tokens = NoTokens
        /\ last.code = "INVALID_TOKEN_TYPE"
           => PassesAllChecks(last.req.refreshToken, now)
        /\ ( last.req.refreshToken.form \in {"jwt", "garbage"}
             /\ ~PassesAllChecks(last.req.refreshToken, now) )
           => last.code = "INVALID_REFRESH_TOKEN"

C5_Witness ==
    /\ Handled("refresh")
    /\ held # NoTokens
    /\ last.req.refreshToken = held.accessToken
    /\ now < held.accessToken.exp
    /\ last.code = "INVALID_TOKEN_TYPE"

\* C6: every path that accepts a token (the JWT strategy behind the gate,
\* validateToken behind /status and /refresh) accepts it only if it passes
\* all of: signature with the configured secret, the configured algorithm,
\* issuer, audience, expiry.
C6_AllPathsCheckEverything ==
    /\ ( GateRoute /\ last.gate = "next" )
       => PassesAllChecks(last.req.header.value, now)
    /\ ( Handled("status") /\ last.authenticated )
       => PassesAllChecks(last.req.header.value, now)
    /\ ( Handled("refresh") /\ last.status = 200 )
       => PassesAllChecks(last.req.refreshToken, now)

\* a login request whose email no user of the store has
UnknownEmail(req) ==
    /\ isEmail(req.email)
    /\ req.password # ""
    /\ \A i \in 1..Len(users) :
        users[i].email \notin {req.email, normalizeEmail(req.email)}

\* a login request for a local account, with a password that is not its own
WrongPassword(req) ==
    /\ isEmail(req.email)
    /\ req.password # ""
    /\ \E i \in 1..Len(users) : users[i].email = normalizeEmail(req.email)
    /\ \A i \in 1..Len(users) :
        users[i].email = normalizeEmail(req.email)
        => /\ users[i].password # NoPassword
           /\ users[i].password.plain # req.password

\* C7: a login with an email no user has and a login for a local account
\* with a wrong password get the same response: 401, the same error text,
\* the same code, no tokens.
C7_SameAnswerForUnknownAndWrong ==
    /\ \A r1 \in (IF Ready THEN {r \in LoginRequests : UnknownEmail(r)} ELSE {}) :
        \A r2 \in {r \in LoginRequests : WrongPassword(r)} :
            Body(LoginResponse(users, now, r1)) = Body(LoginResponse(users, now, r2))
    /\ ( Handled("login") /\ (UnknownEmail(last.req) \/ WrongPassword(last.req)) )
       => /\ last.status = 401
          /\ last.code = "INVALID_CREDENTIALS"
          /\ last.error = "Email ou senha incorretos."
          /\ last.tokens = NoTokens

C7_Witness ==
    /\ Handled("login")
    /\ UnknownEmail(last.req)
    /\ last.code = "INVALID_CREDENTIALS"
    /\ \E r2 \in LoginRequests :
        /\ WrongPassword(r2)
        /\ Body(LoginResponse(users, now, r2)) = Body(last)

\* C8: a login for an account that has no password hash answers 401
\* OAUTH_ACCOUNT whatever the password is, never INVALID_CREDENTIALS and
\* never tokens.  (Stated for the passwords the validators let through.)
C8_OAuthAccountAnswer ==
    ( /\ Handled("login")
      /\ last.req.password # ""
      /\ \E i \in 1..Len(users) : users[i].email = last.req.email
      /\ \A i \in 1..Len(users) :
          users[i].email \in {last.req.email, normalizeEmail(last.req.email)}
          => users[i].password = NoPassword )
    => /\ last.status = 401
       /\ last.code = "OAUTH_ACCOUNT"
       /\ last.tokens = NoTokens

\* C9: a request to a route behind authenticateJWT with no Authorization
\* header, a scheme other than Bearer, or no token after the scheme, is
\* answered 401 by the gate without any findById call and without the
\* handler running.
C9_NoTokenNoLookup ==
    ( /\ GateRoute
      /\ \/ last.req.header = NoHeader
         \/ last.req.header.scheme \notin {"Bearer", "bearer"}
         \/ last.req.header.value = NoToken )
    => /\ last.status = 401
       /\ last.gate = "401"
       /\ last.lookups = 0
       /\ last.reqUser = UndefinedUser
       /\ ~last.handlerRan

C9_Witness ==
    /\ last.route = "profile"
    /\ last.req.header # NoHeader
    /\ last.req.header.scheme = "Basic"
    /\ PassesAllChecks(last.req.header.value, now)
    /\ last.req.header.value.userId \in UserIds
    /\ last.status = 401

\* C10: once a user is removed, the tokens issued for that user are refused:
\* the gate answers 401 and the handler does not run, /refresh issues no
\* tokens; and a token the gate lets through resolves to the user it was
\* issued for, never to another one.
C10_TokensOfRemovedUserRefused ==
    /\ ( /\ GateRoute
         /\ last.req.header # NoHeader
         /\ last.req.header.value.form = "jwt"
         /\ last.req.header.value.userId \notin UserIds )
       => /\ last.status = 401
          /\ last.gate = "401"
          /\ ~last.handlerRan
    /\ ( /\ last.route = "refresh"
         /\ last.req.refreshToken.form = "jwt"
         /\ last.req.refreshToken.userId \notin UserIds )
       => /\ last.tokens = NoTokens
          /\ last.status # 200
    /\ ( /\ GateRoute
         /\ last.gate = "next"
         /\ last.req.header.value.type # "refresh" )
       => /\ last.reqUser.id = last.req.header.value.userId
          /\ last.reqUser.email = last.req.header.value.email

C10_Witness ==
    /\ last.route = "profile"
    /\ held # NoTokens
    /\ last.req.header = Bearer(held.accessToken)
    /\ now < held.accessToken.exp
    /\ held.accessToken.userId \notin UserIds
    /\ last.status = 401

\* the same for /refresh
C10_RefreshReached ==
    /\ Handled("refresh")
    /\ held # NoTokens
    /\ last.req.refreshToken = held.refreshToken
    /\ now < held.refreshToken.exp
    /\ last.code = "USER_NOT_FOUND"

\* the lookup of the request was made to fail
LookupFailed == "lookupThrows" \in DOMAIN last.req

\* what the strategy checks before it looks the user up
ReachesLookup(header, t) ==
    /\ header # NoHeader
    /\ header.scheme \in {"Bearer", "bearer"}
    /\ header.value.form = "jwt"
    /\ header.value.key = JWT_SECRET
    /\ header.value.alg \in HS_ALGS
    /\ t < header.value.exp

\* C11: behind authenticateJWT, when the user lookup itself throws the
\* answer is 500 AUTH_ERROR, not the 401 INVALID_TOKEN answer, no user is
\* attached and the handler does not run.
C11_LookupFailureIs500 ==
    ( GateRoute /\ LookupFailed /\ ReachesLookup(last.req.header, now) )
    => /\ last.status = 500
       /\ last.code = "AUTH_ERROR"
       /\ last.gate = "500"
       /\ last.reqUser = UndefinedUser
       /\ ~last.handlerRan

C11_Witness ==
    /\ last.route = "profile"
    /\ LookupFailed
    /\ held # NoTokens
    /\ last.req.header = Bearer(held.accessToken)
    /\ last.status = 500

\* C12 as stated: behind optionalAuth, when the user lookup throws the error
\* reaches the caller and the request does not go on as an anonymous one.
C12_OptionalSurfacesLookupFailure ==
    ( last.route = "optional" /\ LookupFailed
      /\ ReachesLookup(last.req.header, now) )
    => /\ last.gate # "next"
       /\ last.status >= 500
       /\ ~last.handlerRan

\* C12: behind optionalAuth, when the user lookup throws the error is only
\* logged: the gate sends no response and the handler is called with
\* req.user = null, as for an anonymous request.
C12_OptionalIgnoresLookupFailure ==
    ( last.route = "optional" /\ LookupFailed
      /\ ReachesLookup(last.req.header, now) )
    => /\ last.gate = "next"
       /\ last.handlerRan
       /\ last.reqUser = NullUser
       /\ last.status = 0
       /\ last.code = ""

C12_Witness ==
    /\ last.route = "optional"
    /\ LookupFailed
    /\ held # NoTokens
    /\ last.req.header = Bearer(held.accessToken)
    /\ now < held.accessToken.exp
    /\ held.accessToken.userId \in UserIds
    /\ last.reqUser = NullUser
    /\ last.handlerRan

\* C13: behind optionalAuth no request is rejected by the gate: the handler
\* is called, with req.user = null when the header is missing or malformed,
\* the token is invalid or expired or its user is not in the store, and with
\* the store's user of the token's userId when authentication succeeds.
C13_OptionalNeverRejects ==
    last.route = "optional" =>
        /\ last.gate = "next"
        /\ last.handlerRan
        /\ IF /\ last.req.header # NoHeader
              /\ last.req.header.scheme \in {"Bearer", "bearer"}
              /\ PassesAllChecks(last.req.header.value, now)
              /\ last.req.header.value.userId \in UserIds
           THEN /\ last.reqUser.id = last.req.header.value.userId
                /\ \E i \in 1..Len(users) : users[i] = last.reqUser
           ELSE last.reqUser = NullUser

\* C14: GET /status answers 200 to every request, whatever the header holds
\* and whatever requests came before it; authenticated is false when the
\* header is absent or the token is invalid.
C14_StatusAlways200 ==
    last.route = "status" =>
        /\ last.status = 200
        /\ ( \/ last.req.header = NoHeader
             \/ ~PassesAllChecks(last.req.header.value, now) )
           => ~last.authenticated

\* C15: a POST /refresh that supplies a refreshToken ends in 200 with a new
\* token pair or in 401 with code INVALID_TOKEN_TYPE or
\* INVALID_REFRESH_TOKEN; every failure of validateToken is answered 401
\* INVALID_REFRESH_TOKEN.
C15_RefreshOutcomes ==
    ( Handled("refresh") /\ last.req.refreshToken # NoToken )
    => /\ \/ last.status = 200 /\ last.tokens # NoTokens
          \/ /\ last.status = 401
             /\ last.code \in {"INVALID_TOKEN_TYPE", "INVALID_REFRESH_TOKEN"}
             /\ last.tokens = NoTokens
       /\ ~validateToken(last.req.refreshToken, now).ok
          => last.status = 401 /\ last.code = "INVALID_REFRESH_TOKEN"

\* the same without the failures that are not JWT errors
C15_JwtErrorsOnly ==
    ( Handled("refresh") /\ last.req.refreshToken.form \in {"jwt", "garbage"} )
    => /\ \/ last.status = 200 /\ last.tokens # NoTokens
          \/ /\ last.status = 401
             /\ last.code \in {"INVALID_TOKEN_TYPE", "INVALID_REFRESH_TOKEN", "USER_NOT_FOUND"}
             /\ last.tokens = NoTokens
       /\ ~PassesAllChecks(last.req.refreshToken, now)
          => last.status = 401 /\ last.code = "INVALID_REFRESH_TOKEN"

\* C16: under every interleaving of register requests and Google sign-ups
\* the store never holds two users with the same email, and a registration
\* answers 201 only for an email no other user of the store has.
C16_EmailsUnique ==
    /\ \A i, j \in 1..Len(users) : i # j => users[i].email # users[j].email
    /\ ( last.route = "register" /\ last.status = 201 )
       => \A i \in 1..Len(users) :
            users[i].email = last.bodyUser.email => users[i].id = last.bodyUser.id

\* C17: every stored email is in case-normalized form, whichever path
\* created the user; no two users have emails that differ only by case, and
\* a lookup of the normalized email finds the account.
C17_EmailsNormalized ==
    /\ \A i \in 1..Len(users) : users[i].email = normalizeEmail(users[i].email)
    /\ \A i, j \in 1..Len(users) :
        normalizeEmail(users[i].email) = normalizeEmail(users[j].email)
        => users[i].email = users[j].email
    /\ \A i \in 1..Len(users) :
        findByEmail(users, normalizeEmail(users[i].email)) # UndefinedUser

\* C18: every user with authProvider = google has no password hash and every
\* user with authProvider = local has one, after any sequence of register,
\* login, Google sign-in (linking included) and the seeding.
C18_ProviderAndPassword ==
    \A i \in 1..Len(users) :
        /\ users[i].authProvider \in {"google", "local"}
        /\ users[i].authProvider = "google" => users[i].password = NoPassword
        /\ users[i].authProvider = "local"
           => /\ users[i].password # NoPassword
              /\ users[i].password.kind = "bcrypt"

C18_Witness ==
    /\ \E i \in 1..Len(users) :
        /\ users[i].googleId = "g-adm"
        /\ users[i].authProvider = "local"
        /\ users[i].password # NoPassword
    /\ \E i \in 1..Len(users) :
        /\ users[i].id = 3
        /\ users[i].authProvider = "google"

\* a token pair the client keeps is still taken: the access token by the
\* gate, the refresh token by /refresh, each until its expiry and while its
\* user is in the store
HeldTokensAccepted ==
    held # NoTokens =>
        /\ ( now < held.accessToken.exp /\ held.accessToken.userId \in UserIds )
           => authenticateJWT(users, now, "profile", Bearer(held.accessToken)).gate = "next"
        /\ ( now < held.refreshToken.exp /\ held.refreshToken.userId \in UserIds )
           => LET r == RefreshResponse(users, now, [refreshToken |-> held.refreshToken])
              IN r.status = 200 /\ r.tokens # NoTokens

C19_RefreshReused ==
    /\ last.route = "refresh"
    /\ last.status = 200
    /\ held # NoTokens
    /\ last.req.refreshToken = held.refreshToken
    /\ RefreshResponse(users, now, [refreshToken |-> held.refreshToken]).status = 200

\* tokens a client can present: what it holds and what can be made of it
\* (looked at between requests: the tokens and the clock are the same while
\* a response is outstanding)
PresentedTokens ==
    IF held = NoTokens THEN {}
    ELSE TokenVariants(held.accessToken) \cup TokenVariants(held.refreshToken)

\* the signature of the token is valid for the configured secret and algorithm
SignatureValid(token) ==
    token.key = JWT_CONFIG.secret /\ token.alg = JWT_CONFIG.algorithm

\* C20 as stated: validateToken of a token whose expiry is in the past fails
\* with "Token expirado.", whether its signature is valid or not.
C20_ExpiredAlwaysExpiredError ==
    /\ \A token \in (IF Ready THEN PresentedTokens ELSE {}) :
        now >= token.exp
        => LET v == validateToken(token, now)
           IN ~v.ok /\ v.message = "Token expirado."
    /\ ( /\ Handled("status")
         /\ last.req.header # NoHeader
         /\ last.req.header.scheme = "Bearer"
         /\ last.req.header.value.form = "jwt"
         /\ now >= last.req.header.value.exp )
       => ~last.authenticated /\ last.error = "Token expirado."

\* C20: validateToken of a token whose expiry is in the past always fails:
\* with "Token expirado." when its signature is valid for the configured
\* secret and algorithm (whatever its issuer and audience), with
\* "Token invalido." when it is not.
C20_ExpiredFailsSignatureFirst ==
    /\ \A token \in (IF Ready THEN PresentedTokens ELSE {}) :
        now >= token.exp
        => LET v == validateToken(token, now)
           IN /\ ~v.ok
              /\ v.message = IF SignatureValid(token) THEN "Token expirado."
                             ELSE "Token invalido."
    /\ ( /\ Handled("status")
         /\ last.req.header # NoHeader
         /\ last.req.header.scheme = "Bearer"
         /\ last.req.header.value.form = "jwt"
         /\ now >= last.req.header.value.exp )
       => /\ ~last.authenticated
          /\ last.error = IF SignatureValid(last.req.header.value)
                          THEN "Token expirado." ELSE "Token invalido."

C20_Witness ==
    /\ Handled("status")
    /\ last.req.header # NoHeader
    /\ last.req.header.scheme = "Bearer"
    /\ last.req.header.value.form = "jwt"
    /\ now >= last.req.header.value.exp
    /\ last.req.header.value.key = "other-secret"
    /\ last.error = "Token invalido."

\* the threshold of a call, the default taken when none was given
ThresholdOf(req) == IF req.thresholdMinutes = NotGiven THEN 30 ELSE req.thresholdMinutes

\* milliseconds from the call to the expiry of a token that has an exp claim
TimeLeft(r) == r.req.token.exp * 1000 - r.at

\* C21: isTokenNearExpiry(token, thresholdMinutes) never throws; it returns
\* true exactly when the token cannot be decoded or has no expiry claim, or
\* when expiry - now <= thresholdMinutes, and false otherwise (true for 10
\* minutes left and false for 60 minutes left with threshold 30); the result
\* is the same whatever the signature of the token is.
C21_NearExpiry ==
    last.route = "isTokenNearExpiry" =>
        LET token == last.req.token
            undecodable == token.form # "jwt"
            noExpiry == token.form = "jwt" /\ token.exp = NoExp
        IN /\ ~last.result.threw
           /\ last.result.value \in BOOLEAN
           /\ last.result.value
              = ( \/ undecodable
                  \/ noExpiry
                  \/ TimeLeft(last) <= ThresholdOf(last.req) * 60 * 1000 )
           /\ ( ~undecodable /\ ~noExpiry /\ ThresholdOf(last.req) = 30 )
              => /\ TimeLeft(last) = 10 * 60 * 1000 => last.result.value
                 /\ TimeLeft(last) = 60 * 60 * 1000 => ~last.result.value
           /\ token.form = "jwt"
              => \A key \in {JWT_CONFIG.secret, "other-secret", ""} :
                    isTokenNearExpiry([token EXCEPT !.key = key],
                                      last.req.thresholdMinutes, last.at) = last.result

C21_Witness ==
    /\ last.route = "isTokenNearExpiry"
    /\ last.req.token.form = "jwt"
    /\ last.req.token.key = "other-secret"
    /\ last.req.token.exp # NoExp
    /\ last.req.thresholdMinutes = 30
    /\ TimeLeft(last) = 60 * 60 * 1000
    /\ ~last.result.value

\* the same on the side of the threshold where the answer is true
C21_TenMinutesLeft ==
    /\ last.route = "isTokenNearExpiry"
    /\ last.req.token.form = "jwt"
    /\ last.req.token.exp # NoExp
    /\ last.req.thresholdMinutes = NotGiven
    /\ TimeLeft(last) = 10 * 60 * 1000
    /\ last.result.value

\* C22: every response with status >= 400 of the /auth routes (register,
\* login, refresh, profile, logout, Google callback), of their rate limiter
\* and of the mandatory gate carries both an `error` and a `code`.
C22_ErrorsHaveErrorAndCode ==
    /\ ( last.route \in {"register", "login", "refresh", "profile", "logout", "google",
                         "status"}
         /\ last.status >= 400 )
       => last.error # "" /\ last.code # ""
    /\ \A result \in (IF Ready THEN {"error", "fail"} ELSE {}) :
        LET g == authenticateJWTCallback([result |-> result, user |-> UndefinedUser,
                                          lookups |-> 1], "profile", NoHeader)
        IN g.status >= 400 /\ g.error # "" /\ g.code # ""

C22_Witness ==
    /\ last.route = "login"
    /\ last.status = 429
    /\ last.error # ""
    /\ last.code = "AUTH_RATE_LIMIT_EXCEEDED"

\* an error that reaches the error handler of the server
C22_ErrorHandlerReached ==
    /\ last.route = "google"
    /\ last.status = 500
    /\ last.code = "INTERNAL_ERROR"
    /\ last.error # ""

\* the user of the store a response is about has a password hash
AnswersForUserWithPassword ==
    \E i \in 1..Len(users) :
        /\ users[i].password # NoPassword
        /\ \/ last.bodyUser # UndefinedUser /\ last.bodyUser.id = users[i].id
           \/ last.reqUser # UndefinedUser /\ last.reqUser.id = users[i].id
           \/ last.route = "login" /\ users[i].email = normalizeEmail(last.req.email)

\* C23: whatever the store holds, users changed by updateGoogleData or
\* update included, no response of register, login, the Google callback or
\* GET /profile carries a password hash: neither the user of the body nor
\* the claims of the tokens have one.
C23_NoPasswordInResponses ==
    last.route \in {"register", "login", "google", "profile"} =>
        /\ "password" \notin DOMAIN last.bodyUser
        /\ last.tokens # NoTokens
           => /\ "password" \notin DOMAIN last.tokens.accessToken
              /\ "password" \notin DOMAIN last.tokens.refreshToken

C23_Witness ==
    /\ last.route \in {"login", "profile"}
    /\ last.status = 200
    /\ last.bodyUser # UndefinedUser
    /\ AnswersForUserWithPassword

\* the same for a user User.update or updateGoogleData has replaced: the
\* serialisation fails and the answer carries no user at all
C23_UpdatedUserAnswered ==
    /\ last.route = "login"
    /\ last.req.password = "Nova1"
    /\ last.status = 500
    /\ last.bodyUser = UndefinedUser
    /\ AnswersForUserWithPassword

\* C24: whenever localStorage holds a token for which GET /auth/status
\* answers authenticated: true, checkAuthentication() returns true and
\* leaves authState.isAuthenticated = true with authState.token = the
\* stored token; so protectPage and the initialisation of the dashboard do
\* not send such a user to the login page.
C24_CheckAuthenticationAccepts ==
    ( /\ last.route \in {"checkAuthentication", "protectPage", "initDashboardPage"}
      /\ last.route = "protectPage" => last.pathname \notin PUBLIC_PAGES
      /\ last.stored # NoItem
      /\ last.response.status = 200
      /\ last.response.authenticated )
    => /\ last.returned
       /\ authState.isAuthenticated
       /\ authState.token = last.stored
       /\ last.route # "checkAuthentication" => location.href = ""

\* the account was linked to a Google id by updateGoogleData
Linked(user) == user # UndefinedUser /\ user.provider = "google"

\* C25: a Google callback whose profile has an unknown googleId and the email
\* of an existing user links that account (its googleId is set) and answers
\* 200 with the user and a token pair; afterwards a password login of that
\* user and GET /auth/profile with the user's access token answer 200 too.
C25_LinkingAnswers200 ==
    /\ ( Handled("google") /\ Linked(last.reqUser) )
       => /\ last.reqUser.googleId = last.req.id
          /\ findByGoogleId(users, last.req.id) = last.reqUser
          /\ last.status = 200
          /\ last.tokens # NoTokens
          /\ last.bodyUser # UndefinedUser
          /\ last.bodyUser.id = last.reqUser.id
    /\ ( /\ Handled("login")
         /\ isEmail(last.req.email)
         /\ LET user == findByEmail(users, normalizeEmail(last.req.email))
            IN /\ Linked(user)
               /\ comparePassword(last.req.password, user.password) )
       => last.status = 200 /\ last.tokens # NoTokens
    /\ ( /\ last.route = "profile"
         /\ last.req.header # NoHeader
         /\ last.req.header.scheme = "Bearer"
         /\ PassesAllChecks(last.req.header.value, now)
         /\ Linked(findById(users, last.req.header.value.userId)) )
       => last.status = 200 /\ last.bodyUser # UndefinedUser

\* the part of it that holds: the account is linked
C25_AccountIsLinked ==
    ( Handled("google") /\ Linked(last.reqUser) )
    => /\ last.reqUser.googleId = last.req.id
       /\ findByGoogleId(users, last.req.id) = last.reqUser
       /\ last.reqUser.password # NoPassword

\* the position of a statement among those that completed, 0 when it did not
Position(statement) ==
    FirstIndex({i \in 1..Len(server.installed) : server.installed[i] = statement})

\* C26: with the required environment configured, the start of the server
\* runs its steps in order (middlewares, Passport initialisation, API
\* routes, static files) and reaches the listening state; the Passport
\* initialisation is installed before the /api/auth routes are mounted.
C26_StartReachesListening ==
    ( /\ server.phase \in {"listening", "crashed"}
      /\ server.env.JWT_SECRET
      /\ server.env.GOOGLE_CLIENT_ID )
    => /\ server.phase = "listening"
       /\ server.installed = ServerScript
       /\ 0 < Position("express.json")
       /\ Position("express.json") < Position("passport.initialize")
       /\ Position("passport.initialize") < Position("/api/auth")
       /\ Position("/api/payment") < Position("express.static")

\* the last request was a signed webhook event of one of the three types for
\* a payment that was recorded when it arrived, sent as Stripe sends it
SignedEventForRecorded ==
    /\ last # Idle
    /\ last.route = "webhook"
    /\ last.req.signed
    /\ IsJson(last.req.contentType)
    /\ StatusOfEvent(last.req.type) # ""
    /\ findByStripeId(last.before, last.req.object) # NoPayment

\* C27: a correctly signed webhook event payment_intent.succeeded,
\* payment_intent.payment_failed or payment_intent.canceled for a locally
\* recorded payment, sent through the application's middleware chain, passes
\* the signature verification, sets that payment's local status to succeeded,
\* failed or canceled, and is answered 200 {received: true}; an event for an
\* unknown PaymentIntent changes no payment.
C27_WebhookSetsStatus ==
    /\ SignedEventForRecorded
       => /\ last.status = 200
          /\ last.received
          /\ findByStripeId(payments, last.req.object).status = StatusOfEvent(last.req.type)
    /\ ( /\ last # Idle
         /\ last.route = "webhook"
         /\ findByStripeId(last.before, last.req.object) = NoPayment )
       => payments = last.before

\* the signed event of a recorded payment has been answered
C27_SignedEventAnswered == SignedEventForRecorded

\* C28: each gate invocation has exactly one outcome.  The mandatory gate
\* either sends exactly one response (401 or 500) or calls the handler behind
\* it exactly once with req.user set, never both and never neither; the
\* optional gate calls the handler exactly once and never sends a response.
C28_GateOneOutcome ==
    /\ last.route \in {"profile", "logout"}
       => \/ /\ last.gateSent = 1
             /\ last.gateNext = 0
             /\ last.gate \in {"401", "500"}
             /\ last.status \in {401, 500}
             /\ ~last.handlerRan
          \/ /\ last.gateSent = 0
             /\ last.gateNext = 1
             /\ last.gate = "next"
             /\ last.handlerRan
             /\ last.reqUser # UndefinedUser
             /\ last.reqUser # NullUser
    /\ last.route = "optional"
       => /\ last.gateSent = 0
          /\ last.gateNext = 1
          /\ last.handlerRan

\* the mandatory gate has answered 500 for a failed lookup
C28_Witness ==
    /\ last.route = "profile"
    /\ last.gate = "500"
    /\ last.gateSent = 1

\* the ids of the users of a store
IdsOf(us) == {us[i].id : i \in 1..Len(us)}

\* C29: user ids are pairwise distinct, and the id of a deleted user is never
\* given to a user created later (every id in the store is below nextId,
\* nextId never decreases, and an id that enters the store is the nextId of
\* that moment), so a token issued for one user never resolves through
\* findById to a different user.
C29_IdsNeverReused ==
    /\ [] ( /\ \A i, j \in 1..Len(users) : users[i].id = users[j].id => i = j
            /\ \A i \in 1..Len(users) : users[i].id < nextId
            /\ held # NoTokens
               => \/ findById(users, held.accessToken.userId) = UndefinedUser
                  \/ findById(users, held.accessToken.userId).email = held.accessToken.email )
    /\ [][ /\ nextId' >= nextId
           /\ \A id \in IdsOf(users') \ IdsOf(users) : id = nextId /\ nextId' > id ]_vars

\* a user has been created after the user of the token the client holds was
\* deleted: the new id is 3, and the token's id 1 resolves to nobody
C29_Witness ==
    /\ last.route = "register"
    /\ last.status = 201
    /\ last.bodyUser.id = 3
    /\ held # NoTokens
    /\ held.accessToken.userId = 1
    /\ findById(users, 1) = UndefinedUser

\* C30: in the frontend, after any sequence of login, register, logout,
\* checkAuthentication, loadUserProfile and other API calls, any of which may
\* be answered 401, whenever isLoggedIn() returns true localStorage still
\* holds an auth token and it equals authState.token.
C30_LoggedInHoldsToken ==
    isLoggedIn(authState)
    => /\ localStorage.auth_token # NoItem
       /\ localStorage.auth_token = authState.token

\* what holds of the two: a stored token next to a logged-in authState is
\* the token of authState
C30_StoredTokenIsAuthStateToken ==
    ( isLoggedIn(authState) /\ localStorage.auth_token # NoItem )
    => localStorage.auth_token = authState.token

====
